---- MODULE Spec2Model ----
(***************************************************************************)
(* aws-cognito-next: the token verifier (verifyToken), the cookie locator  *)
(* (getCognitoCookieInfo), the session resolver (getAuthFromCookies,       *)
(* getServerSideAuth) and the session hook (useAuth).                      *)
(*                                                                         *)
(* A raw token is a record of what its three dot-separated segments hold;  *)
(* decoding a token projects its payload, verifying it compares the key    *)
(* and the algorithm of its signature with the key of the key set.         *)
(* A function's outcome is Return(v) or Throw(e), so that a try/catch is a *)
(* step of the model and an exception that escapes is visible.             *)
(***************************************************************************)
EXTENDS Integers, Sequences, FiniteSets

VARIABLES
  pems,               \* the key set handed to createGetServerSideAuth / createUseAuth
  userPoolClientId,   \* the configured client id ("" when it is missing)
  now,                \* the clock jwt.verify reads
  vcall,              \* the last verifyToken call: its arguments and its outcome
  rcall,              \* the last getAuthFromCookies call: its arguments and its outcome
  lcall,              \* the last getCognitoCookieInfo call: its arguments and its outcome
  documentCookie,     \* document.cookie of the browser
  server,             \* the last getServerSideAuth call: header, clock and outcome
  phase,              \* the page's useAuth: "unmounted", "seeded" (rendered, mount
                      \* effect pending), "resolved" (effect done), "crashed"
  initialAuth,        \* the argument of useAuth
  auth,               \* the state useAuth holds and returns
  effectRuns,         \* runs of the mount effect since the component mounted
  effectDeps,         \* the dependency list of the effect's last run
  mounted,            \* document.cookie and the clock the mount effect read
  tabs,               \* the browser's tabs: location, hook state, registered
                      \* listeners, storage events not yet dispatched
  syncSlot,           \* localStorage[AUTH_SYNC_KEY]
  landing,            \* the landing page as the other tabs see it: polling or done
  redirect,           \* the component of the landing page, its state and its timer
  signals             \* the setItem calls on AUTH_SYNC_KEY so far, and which tabs
                      \* acted on the storage event of each

vars == <<pems, userPoolClientId, now, vcall, rcall, lcall, documentCookie, server, phase,
          initialAuth, auth, effectRuns, effectDeps, mounted, tabs, syncSlot,
          landing, redirect, signals>>

config == <<pems, userPoolClientId>>
calls == <<vcall, rcall, lcall>>
hook == <<phase, initialAuth, auth, effectRuns, effectDeps, mounted>>
browser == <<tabs, syncSlot, landing, redirect, signals>>

----------------------------------------------------------------------------
(* Bounds *)

MaxPems == 2          \* entries of a key set
MaxTime == 1          \* the clock runs 0..MaxTime
MaxEvents == 2        \* storage events queued for one tab
MaxWrites == 1        \* setItem calls on AUTH_SYNC_KEY in one run

----------------------------------------------------------------------------
(* Values *)

Null == [kind |-> "null"]
Undefined == [kind |-> "undefined"]

Return(v) == [kind |-> "return", val |-> v]
Throw(e) == [kind |-> "throw", err |-> e]

\* AWSCognitoPublicPem
StoreKids == {"k1", "k2"}
StorePems == {"pemA", "pemB"}
PemEntries == {[kid |-> "k1", pem |-> "pemA"], [kid |-> "k2", pem |-> "pemB"],
               [kid |-> "k1", pem |-> "pemB"]}

RECURSIVE SeqsUpTo(_, _)
SeqsUpTo(S, n) ==
  IF n = 0 THEN {<<>>}
  ELSE LET shorter == SeqsUpTo(S, n - 1)
       IN shorter \cup {Append(s, x) : s \in shorter, x \in S}

KeySets == SeqsUpTo(PemEntries, MaxPems)

ClientIds == {"c1", ""}      \* "" : the configuration value is missing
ClaimIds == {"c1", "c2"}     \* client ids found in tokens
NoClaim == "<undefined>"     \* a claim the payload does not have

NoExp == [has |-> FALSE, at |-> 0]
Exps == {NoExp, [has |-> TRUE, at |-> 1]}

\* a signature: the algorithm and the key that made it ("-": no signature part)
NoSig == [alg |-> "-", key |-> "-"]
Sigs == {NoSig} \cup [alg : {"RS256", "HS256"}, key : StorePems]

EmptyPayload == [kind |-> "empty", aud |-> NoClaim, client_id |-> NoClaim, exp |-> NoExp]
Payloads ==
  {EmptyPayload}
  \cup {[kind |-> "object", aud |-> a, client_id |-> NoClaim, exp |-> e] :
          a \in ClaimIds, e \in Exps}
  \cup {[kind |-> "object", aud |-> NoClaim, client_id |-> c, exp |-> e] :
          c \in ClaimIds, e \in Exps}

MkToken(form, parts, hdr, kid, alg, sig, payload) ==
  [form |-> form, parts |-> parts, hdr |-> hdr, kid |-> kid, alg |-> alg,
   sig |-> sig, payload |-> payload]

NullToken == MkToken("null", 0, "-", NoClaim, "-", NoSig, EmptyPayload)
EmptyToken == MkToken("empty", 0, "-", NoClaim, "-", NoSig, EmptyPayload)

TokenKids == StoreKids \cup {"kx", NoClaim}
TokenAlgs == {"RS256", "HS256", "none"}

\* strings whose first segment is no JSON object: not base64, not JSON, JSON null
BadHeaderTokens ==
  {MkToken("str", p, h, NoClaim, "-", NoSig, EmptyPayload) :
     p \in {1, 3}, h \in {"badbase64", "badjson", "null"}}

\* strings with a readable header and fewer than three segments
ShortTokens ==
  {MkToken("str", p, "object", k, "RS256", NoSig, EmptyPayload) :
     p \in {1, 2}, k \in TokenKids}

FullTokens ==
  {MkToken("str", 3, "object", k, a, s, p) :
     k \in TokenKids \ {NoClaim}, a \in TokenAlgs, s \in Sigs, p \in Payloads}

Tokens == {NullToken, EmptyToken} \cup BadHeaderTokens \cup ShortTokens \cup FullTokens

\* JavaScript's !token for string | null
Falsy(token) == token.form \in {"null", "empty"}

\* the validate argument of verifyToken
NoValidate == [kind |-> "none", field |-> "-", eq |-> "-"]
ClaimIs(f, v) == [kind |-> "claimIs", field |-> f, eq |-> v]

----------------------------------------------------------------------------
(* Token Verifier: src/src/auth.ts *)

\* pems.find((pem) => pem.kid === kid): the first matching entry, or undefined
RECURSIVE FindPem(_, _, _)
FindPem(ps, kid, i) ==
  IF i > Len(ps) THEN Undefined
  ELSE IF ps[i].kid = kid THEN ps[i]
  ELSE FindPem(ps, kid, i + 1)

\* JSON.parse(base64.decode(token.split(".")[0])).kid
HeaderKid(token) ==
  IF token.hdr = "badbase64" THEN Throw("InvalidCharacterError")
  ELSE IF token.hdr = "badjson" THEN Throw("SyntaxError")
  ELSE IF token.hdr = "null" THEN Throw("TypeError")
  ELSE Return(token.kid)

findMatchingPem_ThrowsOnMiss(ps, token) ==
  IF Falsy(token) THEN Return(Undefined)
  ELSE LET h == HeaderKid(token)
       IN IF h.kind = "throw" THEN h
          ELSE IF FindPem(ps, h.val, 1) = Undefined THEN Throw("TypeError")
          ELSE Return(FindPem(ps, h.val, 1))

findMatchingPem(ps, token) ==
  IF Falsy(token) THEN Return(Undefined)
  ELSE LET h == HeaderKid(token)
       IN IF h.kind = "throw" THEN h ELSE Return(FindPem(ps, h.val, 1))

\* jws.verify: the signature was made with this algorithm and this key
SignatureValid(token, alg, pem) == token.sig = [alg |-> alg, key |-> pem]

\* jwt.verify(token, pem, { algorithms }) of jsonwebtoken, in its order of checks:
\* three segments, a signature part, the allow-list, the signature, the expiry
jwtVerify(token, pem, algorithms, clock) ==
  IF token.parts # 3 THEN Throw("JsonWebTokenError")
  ELSE IF token.sig = NoSig THEN Throw("JsonWebTokenError")
  ELSE IF \A i \in 1..Len(algorithms) : algorithms[i] # token.alg
    THEN Throw("JsonWebTokenError")
  ELSE IF ~SignatureValid(token, token.alg, pem) THEN Throw("JsonWebTokenError")
  ELSE IF token.payload.exp.has /\ clock >= token.payload.exp.at
    THEN Throw("TokenExpiredError")
  ELSE Return(token.payload)

\* validate(data); a missing claim is undefined and equals no client id
Validate(validate, data) ==
  /\ data[validate.field] # NoClaim
  /\ data[validate.field] = validate.eq

\* what a verifyToken call did: its result, whether an exception left it, the
\* console.log lines, and the steps it took
Outcome(ret, threw, logs, steps) ==
  [ret |-> ret, threw |-> threw, logs |-> logs, steps |-> steps]

\* the try block with HS256 let into the allow-list
verifyTokenTry_AllowsHS256(ps, token, validate, clock) ==
  LET m == findMatchingPem(ps, token) IN
  IF m.kind = "throw" THEN [out |-> m, steps |-> {"find"}]
  ELSE IF m.val = Undefined THEN [out |-> Return(Null), steps |-> {"find"}]
  ELSE LET v == jwtVerify(token, m.val.pem, <<"RS256", "HS256">>, clock) IN
       IF v.kind = "throw" THEN [out |-> v, steps |-> {"find", "verify"}]
       ELSE IF v.val.kind = "empty"
         THEN [out |-> Return(Null), steps |-> {"find", "verify"}]
       ELSE IF validate.kind = "none"
         THEN [out |-> Return(v.val), steps |-> {"find", "verify"}]
       ELSE IF ~Validate(validate, v.val)
         THEN [out |-> Return(Null), steps |-> {"find", "verify", "validate"}]
       ELSE [out |-> Return(v.val), steps |-> {"find", "verify", "validate"}]

\* the try block of verifyToken, lines 70-76
verifyTokenTry(ps, token, validate, clock) ==
  LET m == findMatchingPem(ps, token) IN
  IF m.kind = "throw" THEN [out |-> m, steps |-> {"find"}]
  ELSE IF m.val = Undefined THEN [out |-> Return(Null), steps |-> {"find"}]
  ELSE LET v == jwtVerify(token, m.val.pem, <<"RS256">>, clock) IN
       IF v.kind = "throw" THEN [out |-> v, steps |-> {"find", "verify"}]
       ELSE IF v.val.kind = "empty"
         THEN [out |-> Return(Null), steps |-> {"find", "verify"}]
       ELSE IF validate.kind = "none"
         THEN [out |-> Return(v.val), steps |-> {"find", "verify"}]
       ELSE IF ~Validate(validate, v.val)
         THEN [out |-> Return(Null), steps |-> {"find", "verify", "validate"}]
       ELSE [out |-> Return(v.val), steps |-> {"find", "verify", "validate"}]

\* verifyToken with the predicate applied before the token is verified
verifyToken_ValidatesFirst(ps, token, validate, clock) ==
  IF Falsy(token) THEN Outcome(Null, FALSE, 0, {})
  ELSE IF token.hdr = "object" /\ validate.kind # "none"
          /\ ~Validate(validate, token.payload)
    THEN Outcome(Null, FALSE, 0, {"validate"})
  ELSE LET t == verifyTokenTry(ps, token, NoValidate, clock) IN
       IF t.out.kind = "throw"
         THEN Outcome(Null, FALSE,
                      IF t.out.err # "TokenExpiredError" THEN 1 ELSE 0, t.steps)
       ELSE Outcome(t.out.val, FALSE, 0, t.steps \cup {"validate"})

\* verifyToken whose catch lets the expiry error through
verifyToken_RethrowsExpired(ps, token, validate, clock) ==
  IF Falsy(token) THEN Outcome(Null, FALSE, 0, {})
  ELSE LET t == verifyTokenTry(ps, token, validate, clock) IN
       IF t.out.kind = "throw"
         THEN IF t.out.err = "TokenExpiredError"
                THEN Outcome(Undefined, TRUE, 0, t.steps)
                ELSE Outcome(Null, FALSE, 1, t.steps)
       ELSE Outcome(t.out.val, FALSE, 0, t.steps)

\* verifyToken without its try/catch
verifyToken_NoCatch(ps, token, validate, clock) ==
  IF Falsy(token) THEN Outcome(Null, FALSE, 0, {})
  ELSE LET t == verifyTokenTry(ps, token, validate, clock) IN
       IF t.out.kind = "throw" THEN Outcome(Undefined, TRUE, 0, t.steps)
       ELSE Outcome(t.out.val, FALSE, 0, t.steps)

\* verifyToken whose catch logs whatever it caught
verifyToken_LogsExpired(ps, token, validate, clock) ==
  IF Falsy(token) THEN Outcome(Null, FALSE, 0, {})
  ELSE LET t == verifyTokenTry(ps, token, validate, clock) IN
       IF t.out.kind = "throw" THEN Outcome(Null, FALSE, 1, t.steps)
       ELSE Outcome(t.out.val, FALSE, 0, t.steps)

\* verifyToken, lines 59-83
verifyToken(ps, token, validate, clock) ==
  IF Falsy(token) THEN Outcome(Null, FALSE, 0, {})
  ELSE LET t == verifyTokenTry(ps, token, validate, clock) IN
       IF t.out.kind = "throw"
         THEN Outcome(Null, FALSE,
                      IF t.out.err # "TokenExpiredError" THEN 1 ELSE 0, t.steps)
       ELSE Outcome(t.out.val, FALSE, 0, t.steps)

----------------------------------------------------------------------------
(* Cookie Locator: src/src/cognito.ts *)

\* A cookie string is absent (no Cookie header) or a list of name=value pairs; the
\* empty list is the empty string.  A name is
\* CognitoIdentityServiceProvider.<cid>.LastAuthUser or ....<cid>.<key>.<kind>;
\* text is a list of characters, an escape such as %2B being one character.
NoCookie == [kind |-> "absent", pairs |-> <<>>]
CookieString(pairs) == [kind |-> "string", pairs |-> pairs]

CookieName(cid, key, kind) == [cid |-> cid, key |-> key, kind |-> kind]
TextValue(text) == [kind |-> "text", text |-> text, token |-> NullToken]
TokenValue(token) == [kind |-> "token", text |-> <<>>, token |-> token]

\* JavaScript's !cookieString
CookieFalsy(cookieString) == cookieString.kind = "absent" \/ cookieString.pairs = <<>>

encodeURIComponent(c) ==
  CASE c = "+" -> "%2B"
    [] c = "@" -> "%40"
    [] OTHER -> c

decodeURIComponent(c) ==
  CASE c = "%2B" -> "+"
    [] c = "%40" -> "@"
    [] c = "%28" -> "("
    [] c = "%29" -> ")"
    [] OTHER -> c

\* escape() of the characters the last replace of userIdToTokenKey matches
escape(c) ==
  CASE c = "(" -> "%28"
    [] c = ")" -> "%29"
    [] OTHER -> c

\* .replace(/%(2[346B]|5E|60|7C)/g, decodeURIComponent)
UnescapeJsCookie(c) ==
  IF c \in {"%23", "%24", "%26", "%2B", "%5E", "%60", "%7C"}
    THEN decodeURIComponent(c) ELSE c

\* the key as the earlier locator computed it: encodeURIComponent alone
userIdToTokenKey_EncodeOnly(key) ==
  [i \in 1..Len(key) |-> encodeURIComponent(key[i])]

\* encodeURIComponent(key).replace(...).replace(/[()]/g, escape), per character
userIdToTokenKey(key) ==
  [i \in 1..Len(key) |-> escape(UnescapeJsCookie(encodeURIComponent(key[i])))]

\* cookie.parse: the first pair of a name wins, its value is URI-decoded (a token
\* holds no escape and is left as it is)
DecodeValue(v) ==
  IF v.kind = "text"
    THEN TextValue([i \in 1..Len(v.text) |-> decodeURIComponent(v.text[i])])
    ELSE v

RECURSIVE CookieGet(_, _, _)
CookieGet(pairs, name, i) ==
  IF i > Len(pairs) THEN Undefined
  ELSE IF pairs[i].name = name THEN DecodeValue(pairs[i].value)
  ELSE CookieGet(pairs, name, i + 1)

\* JavaScript's truthiness of cookieData[key]: present and not the empty string
ValueTruthy(v) ==
  /\ v # Undefined
  /\ IF v.kind = "text" THEN v.text # <<>> ELSE ~Falsy(v.token)

CookieInfo(lastUser, idToken, accessToken) ==
  [lastUser |-> lastUser, idToken |-> idToken, accessToken |-> accessToken]

unauthenticatedCookies == CookieInfo(Null, NullToken, NullToken)

\* the token a cookie value is read as: any string is a candidate token
AsToken(v) == IF v.kind = "token" THEN v.token
              ELSE MkToken("str", 1, "badbase64", NoClaim, "-", NoSig, EmptyPayload)

\* the client id of the first LastAuthUser cookie of the string
RECURSIVE FirstClient(_, _)
FirstClient(pairs, i) ==
  IF i > Len(pairs) THEN "-"
  ELSE IF pairs[i].name.kind = "LastAuthUser" THEN pairs[i].name.cid
  ELSE FirstClient(pairs, i + 1)

\* a locator that takes the session of whichever client the cookies name
getCognitoCookieInfo_AnyClient(cookieString, userPoolWebClientId) ==
  IF userPoolWebClientId = "" THEN Throw("Error")
  ELSE IF CookieFalsy(cookieString) THEN Return(unauthenticatedCookies)
  ELSE
    LET get(name) == CookieGet(cookieString.pairs, name, 1)
        cid == FirstClient(cookieString.pairs, 1)
        lastUserKey == CookieName(cid, <<>>, "LastAuthUser")
        lastUser == IF ValueTruthy(get(lastUserKey)) THEN get(lastUserKey) ELSE Null
        tokenOf(kind) ==
          IF lastUser = Null THEN NullToken
          ELSE LET key == CookieName(cid, userIdToTokenKey(lastUser.text), kind)
               IN IF ValueTruthy(get(key)) THEN AsToken(get(key)) ELSE NullToken
    IN Return(CookieInfo(lastUser, tokenOf("idToken"), tokenOf("accessToken")))

\* the value of the first cookie of the client and of this kind, of any user
RECURSIVE FirstOfKind(_, _, _, _)
FirstOfKind(pairs, cid, kind, i) ==
  IF i > Len(pairs) THEN Undefined
  ELSE IF pairs[i].name.cid = cid /\ pairs[i].name.kind = kind
    THEN DecodeValue(pairs[i].value)
  ELSE FirstOfKind(pairs, cid, kind, i + 1)

\* a locator that, with no last user, takes the token cookies the client has
getCognitoCookieInfo_TokensWithoutUser(cookieString, userPoolWebClientId) ==
  IF userPoolWebClientId = "" THEN Throw("Error")
  ELSE IF CookieFalsy(cookieString) THEN Return(unauthenticatedCookies)
  ELSE
    LET get(name) == CookieGet(cookieString.pairs, name, 1)
        lastUserKey == CookieName(userPoolWebClientId, <<>>, "LastAuthUser")
        lastUser == IF ValueTruthy(get(lastUserKey)) THEN get(lastUserKey) ELSE Null
        tokenOf(kind) ==
          LET v == IF lastUser = Null
                     THEN FirstOfKind(cookieString.pairs, userPoolWebClientId, kind, 1)
                   ELSE get(CookieName(userPoolWebClientId,
                                       userIdToTokenKey(lastUser.text), kind))
          IN IF ValueTruthy(v) THEN AsToken(v) ELSE NullToken
    IN Return(CookieInfo(lastUser, tokenOf("idToken"), tokenOf("accessToken")))

\* getCognitoCookieInfo, cognito.ts lines 17-53
getCognitoCookieInfo(cookieString, userPoolWebClientId) ==
  IF userPoolWebClientId = "" THEN Throw("Error")
  ELSE IF CookieFalsy(cookieString) THEN Return(unauthenticatedCookies)
  ELSE
    LET get(name) == CookieGet(cookieString.pairs, name, 1)
        lastUserKey == CookieName(userPoolWebClientId, <<>>, "LastAuthUser")
        lastUser == IF ValueTruthy(get(lastUserKey)) THEN get(lastUserKey) ELSE Null
        tokenOf(kind) ==
          IF lastUser = Null THEN NullToken
          ELSE LET key == CookieName(userPoolWebClientId,
                                     userIdToTokenKey(lastUser.text), kind)
               IN IF ValueTruthy(get(key)) THEN AsToken(get(key)) ELSE NullToken
    IN Return(CookieInfo(lastUser, tokenOf("idToken"), tokenOf("accessToken")))

----------------------------------------------------------------------------
(* Session Resolver: src/src/auth.ts *)

AuthTokens(accessTokenData, idTokenData, idToken, accessToken) ==
  [accessTokenData |-> accessTokenData, idTokenData |-> idTokenData,
   idToken |-> idToken, accessToken |-> accessToken]

\* the two verifyToken calls of getAuthFromCookies
VerifyIdToken(ps, cid, idToken, clock) ==
  verifyToken(ps, idToken, ClaimIs("aud", cid), clock)

VerifyAccessToken(ps, cid, accessToken, clock) ==
  verifyToken(ps, accessToken, ClaimIs("client_id", cid), clock)

\* getAuthFromCookies that tests the id token's claims only
getAuthFromCookies_IdOnly(ps, cid, cookie, clock) ==
  IF CookieFalsy(cookie) THEN Return(Null)
  ELSE LET info == getCognitoCookieInfo(cookie, cid) IN
    IF info.kind = "throw" THEN info
    ELSE IF Falsy(info.val.idToken) \/ Falsy(info.val.accessToken) THEN Return(Null)
    ELSE
      LET idOut == VerifyIdToken(ps, cid, info.val.idToken, clock)
          accOut == VerifyAccessToken(ps, cid, info.val.accessToken, clock)
      IN IF idOut.threw \/ accOut.threw THEN Throw("Error")
         ELSE IF idOut.ret = Null THEN Return(Null)
         ELSE Return(AuthTokens(accOut.ret, idOut.ret,
                                info.val.idToken, info.val.accessToken))

\* getAuthFromCookies that returns the two raw tokens in each other's place
getAuthFromCookies_SwapsRaw(ps, cid, cookie, clock) ==
  IF CookieFalsy(cookie) THEN Return(Null)
  ELSE LET info == getCognitoCookieInfo(cookie, cid) IN
    IF info.kind = "throw" THEN info
    ELSE IF Falsy(info.val.idToken) \/ Falsy(info.val.accessToken) THEN Return(Null)
    ELSE
      LET idOut == VerifyIdToken(ps, cid, info.val.idToken, clock)
          accOut == VerifyAccessToken(ps, cid, info.val.accessToken, clock)
      IN IF idOut.threw \/ accOut.threw THEN Throw("Error")
         ELSE IF idOut.ret = Null \/ accOut.ret = Null THEN Return(Null)
         ELSE Return(AuthTokens(accOut.ret, idOut.ret,
                                info.val.accessToken, info.val.idToken))

getAuthFromCookies(ps, cid, cookie, clock) ==
  IF CookieFalsy(cookie) THEN Return(Null)
  ELSE LET info == getCognitoCookieInfo(cookie, cid) IN
    IF info.kind = "throw" THEN info
    ELSE IF Falsy(info.val.idToken) \/ Falsy(info.val.accessToken) THEN Return(Null)
    ELSE
      LET idOut == VerifyIdToken(ps, cid, info.val.idToken, clock)
          accOut == VerifyAccessToken(ps, cid, info.val.accessToken, clock)
      IN IF idOut.threw \/ accOut.threw THEN Throw("Error")
         ELSE IF idOut.ret = Null \/ accOut.ret = Null THEN Return(Null)
         ELSE Return(AuthTokens(accOut.ret, idOut.ret,
                                info.val.idToken, info.val.accessToken))

\* a server resolver that tests the id token's claims only
getServerSideAuth_IdOnly(ps, cid, reqCookie, clock) ==
  getAuthFromCookies_IdOnly(ps, cid, reqCookie, clock)

\* createGetServerSideAuth({ pems, userPoolClientId })(req)
getServerSideAuth(ps, cid, reqCookie, clock) ==
  getAuthFromCookies(ps, cid, reqCookie, clock)

----------------------------------------------------------------------------
(* Session Hook: useAuth of createUseAuth, src/src/auth.ts *)

\* React.useState<AuthTokens>(initialAuth) seeded from the live cookie instead
useAuthFirstRender_ReadsCookie(ps, cid, initial, live, clock) ==
  LET r == getAuthFromCookies(ps, cid, live, clock)
  IN IF initial = Null /\ r.kind = "return" THEN r.val ELSE initial

\* the value useAuth returns from its first render: React.useState(initialAuth)
useAuthFirstRender(ps, cid, initial, live, clock) == initial

\* the dependency list of the effect of useAuth: []
MountEffectDeps(held) == <<>>

\* an effect that keeps the held session when the cookie resolves to null
MountEffectSet_KeepsOnNull(held, cookieAuth) ==
  IF cookieAuth = Null THEN held ELSE cookieAuth

\* setAuth(cookieAuth)
MountEffectSet(held, cookieAuth) == cookieAuth

NotMounted == [cookie |-> NoCookie, at |-> 0]

HookUnmounted ==
  /\ phase = "unmounted"
  /\ initialAuth = Null
  /\ auth = Null
  /\ effectRuns = 0
  /\ effectDeps = <<>>
  /\ mounted = NotMounted

----------------------------------------------------------------------------
(* Cross-tab reconciler: useAutoLogin and useAutoLogout, src/src/auth.ts.   *)
(* A URL is a list of text units, so that startsWith is a prefix test.      *)

AUTH_SYNC_KEY == "auth_sync_key"
NoItem == "<null>"                     \* getItem / event.newValue === null
Signals == {"login", "logout"}

\* write is the setItem call that caused the event, 0 for any other cause
StorageEvt(key, newValue, write) ==
  [type |-> "storage", key |-> key, newValue |-> newValue, write |-> write]
FocusEvt == [type |-> "focus", key |-> "-", newValue |-> NoItem, write |-> 0]

StartsWith(s, prefix) ==
  Len(s) >= Len(prefix) /\ SubSeq(s, 1, Len(prefix)) = prefix

TokenPath == <<"/", "token">>

\* pathname === "/token" || pathname.startsWith("/token/")
OnTokenRoute(pathname) ==
  pathname = TokenPath \/ StartsWith(pathname, TokenPath \o <<"/">>)

\* window.location: origin, pathname, search and hash
Location(pathname, search, hash) ==
  [origin |-> <<"https://app">>, pathname |-> pathname, search |-> search, hash |-> hash]

Href(loc) == loc.origin \o loc.pathname \o loc.search \o loc.hash

\* what a listener did with an event: the return it left by, and its effects
Ran(path, item, reloads, signsOut) ==
  [path |-> path, item |-> item, reloads |-> reloads, signsOut |-> signsOut]
NotRun(item) == Ran("unregistered", item, FALSE, FALSE)

\* storageListener without the token-route return
storageListener_NoGuard(event, held, cookie, cid, pathname, item) ==
  IF event.key # AUTH_SYNC_KEY \/ event.newValue = NoItem
    THEN Ran("unrelated", item, FALSE, FALSE)
  ELSE LET info == getCognitoCookieInfo(cookie, cid) IN
    IF info.kind = "throw" THEN Ran("threw", NoItem, FALSE, FALSE)
    ELSE IF ~Falsy(info.val.idToken) /\ (held = Null \/ held.idToken # info.val.idToken)
      THEN Ran("reload", NoItem, TRUE, FALSE)
    ELSE Ran("same", NoItem, FALSE, FALSE)

\* storageListener that leaves the item in localStorage
storageListener_KeepsItem(event, held, cookie, cid, pathname, item) ==
  IF event.key # AUTH_SYNC_KEY \/ event.newValue = NoItem
    THEN Ran("unrelated", item, FALSE, FALSE)
  ELSE LET info == getCognitoCookieInfo(cookie, cid) IN
    IF info.kind = "throw" THEN Ran("threw", item, FALSE, FALSE)
    ELSE IF ~Falsy(info.val.idToken) /\ (held = Null \/ held.idToken # info.val.idToken)
      THEN IF OnTokenRoute(pathname) THEN Ran("tokenRoute", item, FALSE, FALSE)
           ELSE Ran("reload", item, TRUE, FALSE)
    ELSE Ran("same", item, FALSE, FALSE)

\* storageListener that acts only when it is the one that removes the item
storageListener_FirstClearerActs(event, held, cookie, cid, pathname, item) ==
  IF event.key # AUTH_SYNC_KEY \/ event.newValue = NoItem
    THEN Ran("unrelated", item, FALSE, FALSE)
  ELSE IF item = NoItem THEN Ran("same", NoItem, FALSE, FALSE)
  ELSE LET info == getCognitoCookieInfo(cookie, cid) IN
    IF info.kind = "throw" THEN Ran("threw", NoItem, FALSE, FALSE)
    ELSE IF ~Falsy(info.val.idToken) /\ (held = Null \/ held.idToken # info.val.idToken)
      THEN IF OnTokenRoute(pathname) THEN Ran("tokenRoute", NoItem, FALSE, FALSE)
           ELSE Ran("reload", NoItem, TRUE, FALSE)
    ELSE Ran("same", NoItem, FALSE, FALSE)

\* useAutoLogin's storageListener, lines 132-153; held is the auth of the render
\* whose effect registered it, item the content of localStorage[AUTH_SYNC_KEY]
storageListener(event, held, cookie, cid, pathname, item) ==
  IF event.key # AUTH_SYNC_KEY \/ event.newValue = NoItem
    THEN Ran("unrelated", item, FALSE, FALSE)
  ELSE LET info == getCognitoCookieInfo(cookie, cid) IN   \* after removeItem
    IF info.kind = "throw" THEN Ran("threw", NoItem, FALSE, FALSE)
    ELSE IF ~Falsy(info.val.idToken) /\ (held = Null \/ held.idToken # info.val.idToken)
      THEN IF OnTokenRoute(pathname) THEN Ran("tokenRoute", NoItem, FALSE, FALSE)
           ELSE Ran("reload", NoItem, TRUE, FALSE)
    ELSE Ran("same", NoItem, FALSE, FALSE)

\* the listener without the token-route return
autoLogoutListener_NoGuard(isAuthenticated, cookie, cid, pathname, item) ==
  LET info == getCognitoCookieInfo(cookie, cid) IN
    IF info.kind = "throw" THEN Ran("threw", item, FALSE, FALSE)
    ELSE IF Falsy(info.val.idToken) /\ isAuthenticated
      THEN IF ~Falsy(info.val.idToken) THEN Ran("signOut", item, FALSE, TRUE)
           ELSE Ran("reload", item, TRUE, FALSE)
    ELSE Ran("same", item, FALSE, FALSE)

\* a listener that does not ask whether its render held a session
autoLogoutListener_AnyRender(isAuthenticated, cookie, cid, pathname, item) ==
  LET info == getCognitoCookieInfo(cookie, cid) IN
    IF info.kind = "throw" THEN Ran("threw", item, FALSE, FALSE)
    ELSE IF Falsy(info.val.idToken)
      THEN IF OnTokenRoute(pathname) THEN Ran("tokenRoute", item, FALSE, FALSE)
           ELSE Ran("reload", item, TRUE, FALSE)
    ELSE Ran("same", item, FALSE, FALSE)

\* a listener that signs out where the cookie is gone, as the comment of lines
\* 183-184 has it
autoLogoutListener_SignsOut(isAuthenticated, cookie, cid, pathname, item) ==
  LET info == getCognitoCookieInfo(cookie, cid) IN
    IF info.kind = "throw" THEN Ran("threw", item, FALSE, FALSE)
    ELSE IF Falsy(info.val.idToken) /\ isAuthenticated
      THEN IF OnTokenRoute(pathname) THEN Ran("tokenRoute", item, FALSE, FALSE)
           ELSE Ran("signOut", item, FALSE, TRUE)
    ELSE Ran("same", item, FALSE, FALSE)

\* useAutoLogout's listener, lines 168-199; isAuthenticated is Boolean(auth) of
\* the render whose effect registered it
autoLogoutListener(isAuthenticated, cookie, cid, pathname, item) ==
  LET info == getCognitoCookieInfo(cookie, cid) IN
    IF info.kind = "throw" THEN Ran("threw", item, FALSE, FALSE)
    ELSE IF Falsy(info.val.idToken) /\ isAuthenticated
      THEN IF OnTokenRoute(pathname) THEN Ran("tokenRoute", item, FALSE, FALSE)
           ELSE IF ~Falsy(info.val.idToken) THEN Ran("signOut", item, FALSE, TRUE)
           ELSE Ran("reload", item, TRUE, FALSE)
    ELSE Ran("same", item, FALSE, FALSE)

\* the listeners of a hook on the window: how many are registered on "storage"
\* (useAutoLogin), on "focus" and on "storage" (useAutoLogout), and what the
\* closure of the one registered last captured
NoListener == [registered |-> 0, held |-> Null]
NoLogoutListener == [focus |-> 0, storage |-> 0, held |-> FALSE]

\* window.addEventListener("storage", storageListener), line 156
Registered(listener, held) == [registered |-> listener.registered + 1, held |-> held]

\* the cleanup, line 158: the listener the effect registered is removed
Removed(listener) ==
  [listener EXCEPT !.registered = IF @ = 0 THEN 0 ELSE @ - 1]

\* lines 201 and 203, and the cleanup, lines 205 and 206
LogoutRegistered(listener, held) ==
  [focus |-> listener.focus + 1, storage |-> listener.storage + 1, held |-> held]

LogoutRemoved(listener) ==
  [listener EXCEPT !.focus = IF @ = 0 THEN 0 ELSE @ - 1,
                   !.storage = IF @ = 0 THEN 0 ELSE @ - 1]

\* one listener registered, with what its closure captured
Listener(held) == Registered(NoListener, held)
LogoutListener(held) == LogoutRegistered(NoLogoutListener, held)

\* An optional string argument: absent, or a URL
NoArg == [given |-> FALSE, url |-> <<>>]
Arg(url) == [given |-> TRUE, url |-> url]

\* JavaScript's truthiness of the argument in arg || defaultRedirectUrl
ArgTruthy(arg) == arg.given /\ arg.url # <<>>

\* Auth.configure(null).oauth of a page
ConfiguredOAuth ==
  [redirectAfterSignIn |-> <<"<configured>">>, redirectAfterSignOut |-> <<"<configured>">>]

\* The call to the auth client a page made last: the entry point, the redirect
\* target the configuration held when it was called, the state of its promise,
\* what the caller of login / logout got back, the calls made for it, and
\* whether its rejection was left without a handler
NoCall ==
  [fn |-> "none", saw |-> <<>>, state |-> "none", caller |-> Return(Undefined),
   attempts |-> 0, unhandled |-> FALSE]
AuthCall(fn, saw) ==
  [fn |-> fn, saw |-> saw, state |-> "pending", caller |-> Return(Undefined),
   attempts |-> 1, unhandled |-> FALSE]

\* login that calls federatedSignIn before it configures the target
login_SignsInFirst(loc, oauth, redirectAfterSignInUrl) ==
  LET defaultRedirectUrl == loc.pathname \o loc.search \o loc.hash
      redirectAfterSignIn == IF ArgTruthy(redirectAfterSignInUrl)
                               THEN redirectAfterSignInUrl.url ELSE defaultRedirectUrl
  IN [oauth |-> [oauth EXCEPT !.redirectAfterSignIn = redirectAfterSignIn],
      call |-> AuthCall("federatedSignIn", oauth.redirectAfterSignIn)]

\* useAuthFunctions().login, lines 255-263
login(loc, oauth, redirectAfterSignInUrl) ==
  LET defaultRedirectUrl == loc.pathname \o loc.search \o loc.hash
      redirectAfterSignIn == IF ArgTruthy(redirectAfterSignInUrl)
                               THEN redirectAfterSignInUrl.url ELSE defaultRedirectUrl
      configured == [oauth EXCEPT !.redirectAfterSignIn = redirectAfterSignIn]
  IN [oauth |-> configured,
      call |-> AuthCall("federatedSignIn", configured.redirectAfterSignIn)]

\* logout that calls signOut before it configures the target
logout_SignsOutFirst(loc, oauth, redirectAfterSignOutUrl) ==
  LET defaultRedirectUrl == Href(loc)
      redirectAfterSignOut == IF ArgTruthy(redirectAfterSignOutUrl)
                                THEN redirectAfterSignOutUrl.url ELSE defaultRedirectUrl
  IN [oauth |-> [oauth EXCEPT !.redirectAfterSignOut = redirectAfterSignOut],
      call |-> AuthCall("signOut", oauth.redirectAfterSignOut)]

\* useAuthFunctions().logout up to the call of Auth.signOut(), lines 265-273
logout(loc, oauth, redirectAfterSignOutUrl) ==
  LET defaultRedirectUrl == Href(loc)
      redirectAfterSignOut == IF ArgTruthy(redirectAfterSignOutUrl)
                                THEN redirectAfterSignOutUrl.url ELSE defaultRedirectUrl
      configured == [oauth EXCEPT !.redirectAfterSignOut = redirectAfterSignOut]
  IN [oauth |-> configured,
      call |-> AuthCall("signOut", configured.redirectAfterSignOut)]

\* a logout that calls Auth.signOut() again when the promise rejects
signOutSettled_Retries(call, how) ==
  IF how = "resolved"
    THEN [call |-> [call EXCEPT !.state = "resolved"], writes |-> TRUE]
    ELSE [call |-> [call EXCEPT !.state = "pending", !.attempts = @ + 1],
          writes |-> FALSE]

\* the promise of Auth.signOut() settles, lines 273-275: then() has a handler
\* for the fulfilment only, and the promise then() returns is dropped
signOutSettled(call, how) ==
  IF how = "resolved"
    THEN [call |-> [call EXCEPT !.state = "resolved"], writes |-> TRUE]
    ELSE [call |-> [call EXCEPT !.state = "rejected", !.unhandled = TRUE],
          writes |-> FALSE]

\* the promise of Auth.federatedSignIn() settles, line 262: it is dropped
signInSettled(call, how) ==
  [call |-> [call EXCEPT !.state = how, !.unhandled = (how = "rejected")],
   writes |-> FALSE]

Tabs == {"tabA", "tabB", "tabC"}

\* A tab shows a page that calls useAuth ("hook") or one that only offers the
\* functions of useAuthFunctions ("plain")
ClosedTab ==
  [phase |-> "closed", page |-> "none", location |-> Location(<<"/">>, <<>>, <<>>),
   auth |-> Null, loginListener |-> NoListener, logoutListener |-> NoLogoutListener,
   events |-> <<>>, oauth |-> ConfiguredOAuth, call |-> NoCall]

\* the landing page (pages/token.tsx): the hook useAuthRedirect(onToken) or the
\* component Token, with the state triggeredReload, the dependencies its effect
\* last ran with, the timer the effect started and the closure the timer calls,
\* and what the mount has done: whether it read document.cookie, whether a read
\* found no id token, and its calls
\* of onToken, router.replace and localStorage.setItem in their order
Components == {"useAuthRedirect", "Token"}

\* the `to` parameters of window.location.search in their order: a value, the
\* empty string of "?to=" or the null of "?to"
QNull == "<null>"
Searches == {<<>>, <<"">>, <<QNull>>, <<"/a">>, <<"/a", "/b">>, <<"", "/b">>}

\* queryString.parse(window.location.search).to: undefined, the value, or the
\* array of the values
ParsedTo(search) ==
  IF search = <<>> THEN [kind |-> "undefined", v |-> QNull, items |-> <<>>]
  ELSE IF Len(search) = 1 THEN [kind |-> "value", v |-> search[1], items |-> <<>>]
  ELSE [kind |-> "array", v |-> QNull, items |-> search]

\* value || "": undefined, null and "" are falsy, an array is not
OrEmpty(value) ==
  IF value.kind = "array" \/ (value.kind = "value" /\ value.v \notin {"", QNull})
    THEN value
    ELSE [kind |-> "value", v |-> "", items |-> <<>>]

\* extractFirst that takes the last value of an array
extractFirst_TakesLast(value) ==
  IF value.kind = "array" THEN value.items[Len(value.items)] ELSE value.v

\* token.tsx lines 7-9
extractFirst(value) ==
  IF value.kind = "array" THEN value.items[1] ELSE value.v

\* token.tsx lines 33-34
redirectUriAfterSignIn(search) ==
  LET first == extractFirst(OrEmpty(ParsedTo(search)))
  IN IF first \in {"", QNull} THEN "/" ELSE first

\* no target: the call is not a navigation, the hook computes none
NoTarget == "<none>"

\* what the effect of a component closes over as the target of router.replace
ClosedOver(component, search) ==
  IF component = "Token" THEN redirectUriAfterSignIn(search) ELSE NoTarget

NoInterval ==
  [live |-> FALSE, triggeredReload |-> FALSE, onToken |-> 0, to |-> NoTarget]
Interval(captured, callback, target) ==
  [live |-> TRUE, triggeredReload |-> captured, onToken |-> callback, to |-> target]

Call(fn, arg, callback) ==
  [fn |-> fn, arg |-> arg, by |-> callback, to |-> NoTarget]

\* router.replace(redirectUriAfterSignIn)
Navigate(target, arg, callback) ==
  [fn |-> "replace", arg |-> arg, by |-> callback, to |-> target]

NoLanding ==
  [phase |-> "unmounted", component |-> "none", hash |-> FALSE, search |-> <<>>,
   triggeredReload |-> FALSE, onToken |-> 0, deps |-> <<>>,
   interval |-> NoInterval, read |-> FALSE, waited |-> FALSE, log |-> <<>>,
   stale |-> 0,
   renders |-> 0, mounts |-> 0]

\* what a run of the effect or of the timer's function did: whether it read the
\* cookie, the id token it found, its calls, and the timer it leaves running
Did(kind, read, idToken, made, interval) ==
  [kind |-> kind, read |-> read, idToken |-> idToken, calls |-> made,
   interval |-> interval]

BrowserClosed ==
  /\ tabs = [t \in Tabs |-> ClosedTab]
  /\ syncSlot = NoItem
  /\ landing = "closed"
  /\ redirect = NoLanding
  /\ signals = <<>>

\* a tab with a document
HasDocument(tab) == tab.phase \in {"rendered", "mounted", "crashed"}

\* the storage event of a change of the item, queued for every other document
\* whose page registers storage listeners
Notify(ts, writer, changed, newValue, write) ==
  [u \in Tabs |->
     IF u # writer /\ changed /\ HasDocument(ts[u]) /\ ts[u].page = "hook"
       THEN [ts[u] EXCEPT !.events = Append(@, StorageEvt(AUTH_SYNC_KEY, newValue, write))]
       ELSE ts[u]]

\* what the two listeners of a tab do with an event: storageListener hears
\* storage events, the auto-logout listener storage and focus events
LoginRun(tab, event, cookie, cid, item) ==
  IF event.type = "storage" /\ tab.loginListener.registered > 0
    THEN storageListener(event, tab.loginListener.held, cookie, cid,
                         tab.location.pathname, item)
    ELSE NotRun(item)

LogoutRun(tab, event, cookie, cid, item) ==
  IF (IF event.type = "focus" THEN tab.logoutListener.focus
      ELSE tab.logoutListener.storage) > 0
    THEN autoLogoutListener(tab.logoutListener.held, cookie, cid,
                            tab.location.pathname, item)
    ELSE NotRun(item)

\* the tab performs a terminal action on the event: a reload or a sign-out
Acts(tab, event, cookie, cid, item) ==
  \/ LoginRun(tab, event, cookie, cid, item).reloads
  \/ LogoutRun(tab, event, cookie, cid, item).reloads
  \/ LogoutRun(tab, event, cookie, cid, item).signsOut

\* a setItem call: who called, the value, the item before, the tabs whose
\* listeners are registered and would act on its event, and the dispatches of
\* its event and of the event of its removal: by which tab, with which new
\* value, and the returns the two listeners left by
Signal(by, value, prior, owed) ==
  [by |-> by, value |-> value, prior |-> prior, owed |-> owed, ran |-> {}]

Dispatch(t, event, ranLogin, ranLogout) ==
  [tab |-> t, newValue |-> event.newValue, login |-> ranLogin.path,
   logout |-> ranLogout.path]

\* tab t dispatched an event of write w (0: of none)
Dispatched(sigs, t, event, ranLogin, ranLogout) ==
  [i \in 1..Len(sigs) |->
     IF i = event.write
       THEN [sigs[i] EXCEPT
               !.owed = IF event.newValue = NoItem THEN @ ELSE @ \ {t},
               !.ran = @ \cup {Dispatch(t, event, ranLogin, ranLogout)}]
       ELSE sigs[i]]

\* the tabs that performed a terminal action on the event of a write
Actors(sig) ==
  {r.tab : r \in {d \in sig.ran : \/ d.login = "reload"
                                   \/ d.logout \in {"reload", "signOut"}}}

\* the document of tab t is gone, and the events queued for it with it
Unloaded(sigs, t) == [i \in 1..Len(sigs) |-> [sigs[i] EXCEPT !.owed = @ \ {t}]]

----------------------------------------------------------------------------
(* Calls of the pure functions: the configuration is drawn by the initial  *)
(* state, the arguments by the call.                                       *)

Idle == [state |-> "idle"]

\* the predicates a caller passes: none, or the two of getAuthFromCookies
Validates == {NoValidate, ClaimIs("aud", userPoolClientId),
              ClaimIs("client_id", userPoolClientId)}

\* The tokens put into cookies: the id token and the access token Cognito issues
\* for client c1 under key k1, and each changed in one respect.
IdPayload(aud, exp) == [kind |-> "object", aud |-> aud, client_id |-> NoClaim, exp |-> exp]
AccessPayload(cid, exp) == [kind |-> "object", aud |-> NoClaim, client_id |-> cid, exp |-> exp]
Expiring == [has |-> TRUE, at |-> 1]
Rs256(pem) == [alg |-> "RS256", key |-> pem]

GoodIdToken == MkToken("str", 3, "object", "k1", "RS256", Rs256("pemA"), IdPayload("c1", Expiring))
GoodAccessToken ==
  MkToken("str", 3, "object", "k1", "RS256", Rs256("pemA"), AccessPayload("c1", Expiring))

CookieTokens ==
  {GoodIdToken, GoodAccessToken, EmptyToken,
   [GoodIdToken EXCEPT !.payload = IdPayload("c2", Expiring)],
   [GoodAccessToken EXCEPT !.payload = AccessPayload("c2", Expiring)],
   [GoodIdToken EXCEPT !.payload = IdPayload("c1", NoExp)],
   [GoodAccessToken EXCEPT !.kid = "kx"],
   [GoodIdToken EXCEPT !.sig = Rs256("pemB")],
   [GoodAccessToken EXCEPT !.alg = "HS256", !.sig = [alg |-> "HS256", key |-> "pemA"]],
   MkToken("str", 1, "badjson", NoClaim, "-", NoSig, EmptyPayload)}

Absent == [kind |-> "absent"]          \* no idToken / accessToken cookie
AbsentUser == <<"<absent>">>           \* no LastAuthUser cookie

\* the LastAuthUser values a cookie holds (raw), and the key segments of the names
LastUserValues == {<<>>, <<"a">>, <<"+">>, <<"%2B">>, <<"(">>}
KeySegments == {<<"a">>, <<"+">>, <<"%2B">>, <<"%28">>}
NameClientIds == {"c1", "c2"}

\* the pairs of a cookie string: an unrelated cookie, then those present of
\* LastAuthUser, idToken and accessToken
Pairs(cid, key, lastUser, idToken, accessToken) ==
  <<[name |-> CookieName("-", <<>>, "other"), value |-> TextValue(<<"a">>)]>>
  \o (IF lastUser = AbsentUser THEN <<>>
      ELSE <<[name |-> CookieName(cid, <<>>, "LastAuthUser"), value |-> TextValue(lastUser)]>>)
  \o (IF idToken = Absent THEN <<>>
      ELSE <<[name |-> CookieName(cid, key, "idToken"), value |-> TokenValue(idToken)]>>)
  \o (IF accessToken = Absent THEN <<>>
      ELSE <<[name |-> CookieName(cid, key, "accessToken"), value |-> TokenValue(accessToken)]>>)

CookieStrings ==
  {NoCookie, CookieString(<<>>)}
  \cup {CookieString(Pairs(cid, key, lastUser, idToken, accessToken)) :
          cid \in NameClientIds, key \in KeySegments,
          lastUser \in LastUserValues \cup {AbsentUser},
          idToken \in CookieTokens \cup {Absent},
          accessToken \in CookieTokens \cup {Absent}}

\* The cookies as the auth library's cookie storage (js-cookie) writes them for
\* a signed-in user: a name is written through encodeURIComponent, the escapes
\* of # $ & + ^ ` | decoded again and ( ) escaped; a value through
\* encodeURIComponent with the escapes of # $ & + : < > = / ? @ [ ] ^ ` { } |
\* decoded again.
jsCookieName(text) ==
  [i \in 1..Len(text) |->
     LET c == encodeURIComponent(text[i])
         d == IF c \in {"%23", "%24", "%26", "%2B", "%5E", "%60", "%7C"}
                THEN decodeURIComponent(c) ELSE c
     IN IF d = "(" THEN "%28" ELSE IF d = ")" THEN "%29" ELSE d]

jsCookieValue(text) ==
  [i \in 1..Len(text) |->
     LET c == encodeURIComponent(text[i])
     IN IF c \in {"%23", "%24", "%26", "%2B", "%3A", "%3C", "%3E", "%3D", "%2F",
                  "%3F", "%40", "%5B", "%5D", "%5E", "%60", "%7B", "%7D", "%7C"}
          THEN decodeURIComponent(c) ELSE c]

\* user ids: plain, user+test@example.com, user(test)@example.com
UserIds == {<<"a">>, <<"a", "+", "a", "@", "a">>, <<"a", "(", "a", ")", "@", "a">>}

\* document.cookie after the library signed userId in for client cid
LibraryCookie(cid, userId) ==
  CookieString(Pairs(cid, jsCookieName(userId), jsCookieValue(userId),
                     GoodIdToken, GoodAccessToken))

InitPure ==
  /\ pems \in KeySets
  /\ userPoolClientId \in ClientIds
  /\ now \in 0..MaxTime
  /\ vcall = Idle
  /\ rcall = Idle
  /\ lcall = Idle
  /\ documentCookie = CookieString(<<>>)
  /\ server = Idle
  /\ HookUnmounted
  /\ BrowserClosed

VerifyTokenCall ==
  /\ vcall = Idle /\ rcall = Idle /\ lcall = Idle
  /\ \E token \in Tokens, validate \in Validates :
       vcall' = [state |-> "done", token |-> token, validate |-> validate,
                 out |-> verifyToken(pems, token, validate, now)]
  /\ UNCHANGED <<pems, userPoolClientId, now, rcall, lcall, documentCookie, server, hook,
                 browser>>

\* a resolver that drops from the key set the keys it looked at
GetAuthFromCookiesCall_UsesUpKeys ==
  /\ vcall = Idle /\ rcall = Idle /\ lcall = Idle
  /\ \E cookie \in CookieStrings :
       rcall' = [state |-> "done", cookie |-> cookie,
                 out |-> getAuthFromCookies(pems, userPoolClientId, cookie, now)]
  /\ pems' = <<>>
  /\ UNCHANGED <<userPoolClientId, now, vcall, lcall, documentCookie, server, hook, browser>>

GetAuthFromCookiesCall ==
  /\ vcall = Idle /\ rcall = Idle /\ lcall = Idle
  /\ \E cookie \in CookieStrings :
       rcall' = [state |-> "done", cookie |-> cookie,
                 out |-> getAuthFromCookies(pems, userPoolClientId, cookie, now)]
  /\ UNCHANGED <<pems, userPoolClientId, now, vcall, lcall, documentCookie, server, hook,
                 browser>>

\* a call of the cookie locator: on the server the Cookie header, in the browser
\* document.cookie
GetCognitoCookieInfoCall ==
  /\ vcall = Idle /\ rcall = Idle /\ lcall = Idle
  /\ \E cookie \in CookieStrings :
       lcall' = [state |-> "done", cookie |-> cookie,
                 out |-> getCognitoCookieInfo(cookie, userPoolClientId)]
  /\ UNCHANGED <<pems, userPoolClientId, now, vcall, rcall, documentCookie, server, hook,
                 browser>>

\* getAuthFromCookies on the cookies of a user the library signed in
SignedInCall ==
  /\ vcall = Idle /\ rcall = Idle /\ lcall = Idle
  /\ \E userId \in UserIds :
       rcall' = [state |-> "done", cookie |-> LibraryCookie("c1", userId),
                 out |-> getAuthFromCookies(pems, userPoolClientId,
                                            LibraryCookie("c1", userId), now)]
  /\ UNCHANGED <<pems, userPoolClientId, now, vcall, lcall, documentCookie, server, hook,
                 browser>>

NextPure ==
  VerifyTokenCall \/ GetAuthFromCookiesCall \/ GetCognitoCookieInfoCall \/ SignedInCall

SpecPure == InitPure /\ [][NextPure]_vars

----------------------------------------------------------------------------
(* The page: the server renders it, the browser mounts it, the cookies and *)
(* the clock change under it.                                              *)

LongLivedIdToken == [GoodIdToken EXCEPT !.payload = IdPayload("c1", NoExp)]
LongLivedAccessToken == [GoodAccessToken EXCEPT !.payload = AccessPayload("c1", NoExp)]
OtherClientAccessToken == [GoodAccessToken EXCEPT !.payload = AccessPayload("c2", Expiring)]

\* what document.cookie holds: nothing, a session that expires, one that does
\* not, one whose access token is another client's, one without an access token
BrowserCookies ==
  {CookieString(<<>>),
   CookieString(Pairs("c1", <<"a">>, <<"a">>, GoodIdToken, GoodAccessToken)),
   CookieString(Pairs("c1", <<"a">>, <<"a">>, LongLivedIdToken, LongLivedAccessToken)),
   CookieString(Pairs("c1", <<"a">>, <<"a">>, GoodIdToken, OtherClientAccessToken)),
   CookieString(Pairs("c1", <<"a">>, <<"a">>, GoodIdToken, Absent))}

Init ==
  /\ pems \in KeySets
  /\ userPoolClientId \in ClientIds
  /\ now = 0
  /\ vcall = Idle
  /\ rcall = Idle
  /\ lcall = Idle
  /\ documentCookie \in BrowserCookies
  /\ server = Idle
  /\ HookUnmounted
  /\ BrowserClosed

\* the auth library, a sign-out or another tab rewrites the cookies
SetCookie ==
  /\ \E c \in BrowserCookies \ {documentCookie} : documentCookie' = c
  /\ UNCHANGED <<config, now, calls, server, hook, browser>>

Tick ==
  /\ now < MaxTime
  /\ now' = now + 1
  /\ UNCHANGED <<config, calls, documentCookie, server, hook, browser>>

\* the Cookie header of a request: document.cookie, or no header when it is empty
RequestHeaders == {documentCookie} \cup (IF documentCookie.pairs = <<>> THEN {NoCookie} ELSE {})

\* a server resolver that expires the cookies it could not resolve
ServerRequest_ClearsCookie ==
  /\ phase = "unmounted"
  /\ \E header \in RequestHeaders :
       /\ server' = [state |-> "done", cookie |-> header, at |-> now,
                     out |-> getServerSideAuth(pems, userPoolClientId, header, now)]
       /\ documentCookie' =
            IF getServerSideAuth(pems, userPoolClientId, header, now) = Return(Null)
              THEN CookieString(<<>>) ELSE documentCookie
  /\ UNCHANGED <<config, now, calls, hook, browser>>

\* getServerSideProps: const initialAuth = getServerSideAuth(context.req)
ServerRequest ==
  /\ phase = "unmounted"
  /\ \E header \in RequestHeaders :
       server' = [state |-> "done", cookie |-> header, at |-> now,
                  out |-> getServerSideAuth(pems, userPoolClientId, header, now)]
  /\ UNCHANGED <<config, now, calls, documentCookie, hook, browser>>

\* the values a page passes to useAuth: null, or the session of its server render
InitialAuths ==
  {Null} \cup (IF server # Idle /\ server.out.kind = "return"
                 THEN {server.out.val} ELSE {})

\* the first render of useAuth(initialAuth)
Render ==
  /\ phase = "unmounted"
  /\ \E initial \in InitialAuths :
       /\ initialAuth' = initial
       /\ auth' = useAuthFirstRender(pems, userPoolClientId, initial, documentCookie, now)
  /\ phase' = "seeded"
  /\ effectRuns' = 0
  /\ UNCHANGED <<config, now, calls, documentCookie, server, effectDeps, mounted, browser>>

\* React runs the effect after the first render, and after a later render whose
\* dependency list differs from that of the effect's last run
EffectDue ==
  \/ phase = "seeded"
  \/ phase = "resolved" /\ MountEffectDeps(auth) # effectDeps

\* the effect of useAuth, lines 233-248; an exception in it unmounts the tree
MountEffect ==
  /\ EffectDue
  /\ LET cookieAuth == getAuthFromCookies(pems, userPoolClientId, documentCookie, now) IN
     IF cookieAuth.kind = "throw"
       THEN /\ phase' = "crashed"
            /\ auth' = auth
       ELSE /\ phase' = "resolved"
            /\ auth' = MountEffectSet(auth, cookieAuth.val)
  /\ effectRuns' = effectRuns + 1
  /\ effectDeps' = MountEffectDeps(auth)
  /\ mounted' = [cookie |-> documentCookie, at |-> now]
  /\ UNCHANGED <<config, now, calls, documentCookie, server, initialAuth, browser>>

\* the page is left or reloaded: the component unmounts
Unmount ==
  /\ phase \in {"seeded", "resolved", "crashed"}
  /\ phase' = "unmounted"
  /\ initialAuth' = Null
  /\ auth' = Null
  /\ effectRuns' = 0
  /\ effectDeps' = <<>>
  /\ mounted' = NotMounted
  /\ server' = Idle
  /\ UNCHANGED <<config, now, calls, documentCookie, browser>>

Next == SetCookie \/ Tick \/ ServerRequest \/ Render \/ MountEffect \/ Unmount

Spec == Init /\ [][Next]_vars

----------------------------------------------------------------------------
(* The browser: tabs that show pages of the application, the landing page  *)
(* in a tab of its own, one cookie jar and one localStorage for all.       *)

TabPems == <<[kid |-> "k1", pem |-> "pemA"], [kid |-> "k2", pem |-> "pemB"]>>

AppLocation == Location(<<"/", "token", "s">>, <<"?q">>, <<"#h">>)
TokenLocation == Location(TokenPath, <<>>, <<>>)
TokenSubLocation == Location(TokenPath \o <<"/", "cb">>, <<>>, <<>>)
Locations == {AppLocation, TokenLocation, TokenSubLocation}

\* what document.cookie holds: nothing, the session of one sign-in, that of
\* another
SignedOutCookie == CookieString(<<>>)
SessionCookie ==
  CookieString(Pairs("c1", <<"a">>, <<"a">>, GoodIdToken, GoodAccessToken))
OtherSessionCookie ==
  CookieString(Pairs("c1", <<"a">>, <<"a">>, LongLivedIdToken, LongLivedAccessToken))
TabCookies == {SignedOutCookie, SessionCookie, OtherSessionCookie}

single == <<config, now, calls, server, hook>>

\* the initial state of a browser: cids are the client ids, cookies the cookie
\* jars and items the contents of localStorage[AUTH_SYNC_KEY] it may start with
InitBrowser(cids, cookies, items) ==
  /\ pems = TabPems
  /\ userPoolClientId \in cids
  /\ now = 0
  /\ vcall = Idle
  /\ rcall = Idle
  /\ lcall = Idle
  /\ documentCookie \in cookies
  /\ server = Idle
  /\ HookUnmounted
  /\ tabs = [t \in Tabs |-> ClosedTab]
  /\ syncSlot \in items
  /\ landing = "closed"
  /\ redirect = NoLanding
  /\ signals = <<>>

\* the auth library signs in or out in some tab and rewrites the cookies
CookieChange(cookies) ==
  /\ \E c \in cookies \ {documentCookie} : documentCookie' = c
  /\ UNCHANGED <<single, browser>>

\* what the page passes to useAuth: null, or the session getServerSideProps got
ServerSeeds ==
  LET out == getServerSideAuth(pems, userPoolClientId, documentCookie, now)
  IN {Null} \cup (IF out.kind = "return" THEN {out.val} ELSE {})

\* a tab opens a page at one of locs, or loads again the page it reloaded:
\* the first render, with one of seeds passed to useAuth
PageLoad(t, page, locs, seeds) ==
  /\ \/ tabs[t].phase = "closed"
     \/ tabs[t].phase = "reloading" /\ tabs[t].page = page
  /\ \E loc \in (IF tabs[t].phase = "closed" THEN locs ELSE {tabs[t].location}),
        seed \in seeds :
       tabs' = [tabs EXCEPT ![t] =
                  [ClosedTab EXCEPT
                     !.phase = "rendered", !.page = page, !.location = loc,
                     !.auth = useAuthFirstRender(pems, userPoolClientId, seed,
                                                 documentCookie, now)]]
  /\ UNCHANGED <<single, documentCookie, syncSlot, landing, redirect, signals>>

\* the effects of the first render, in the order of the hooks: useAutoLogin and
\* useAutoLogout register their listeners, then the effect of useAuth resolves
\* the cookie; an exception in it unmounts the tree and its listeners
MountEffects(t) ==
  /\ tabs[t].phase = "rendered"
  /\ tabs[t].page = "hook"
  /\ LET tab == tabs[t]
         cookieAuth == getAuthFromCookies(pems, userPoolClientId, documentCookie, now)
     IN tabs' = [tabs EXCEPT ![t] =
          IF cookieAuth.kind = "throw"
            THEN [tab EXCEPT !.phase = "crashed"]
            ELSE [tab EXCEPT !.phase = "mounted",
                             !.auth = MountEffectSet(tab.auth, cookieAuth.val),
                             !.loginListener = Registered(@, tab.auth),
                             !.logoutListener = LogoutRegistered(@, tab.auth # Null)]]
  /\ UNCHANGED <<single, documentCookie, syncSlot, landing, redirect, signals>>

\* effects of a re-render that resolve the cookie again, as an effect of useAuth
\* with the dependencies [auth] would
ListenerEffects_ResolvesAgain(t) ==
  /\ tabs[t].phase = "mounted"
  /\ tabs[t].loginListener.held # tabs[t].auth
  /\ LET cookieAuth == getAuthFromCookies(pems, userPoolClientId, documentCookie, now)
     IN tabs' = [tabs EXCEPT
                   ![t].auth = IF cookieAuth.kind = "throw" THEN @ ELSE cookieAuth.val,
                   ![t].loginListener = Registered(Removed(@), tabs[t].auth),
                   ![t].logoutListener =
                     LogoutRegistered(LogoutRemoved(@), tabs[t].auth # Null)]
  /\ UNCHANGED <<single, documentCookie, syncSlot, landing, redirect, signals>>

\* effects that register the new listeners and leave those of the last render
ListenerEffects_NoCleanup(t) ==
  /\ tabs[t].phase = "mounted"
  /\ tabs[t].loginListener.held # tabs[t].auth
  /\ tabs' = [tabs EXCEPT
                ![t].loginListener = Registered(@, tabs[t].auth),
                ![t].logoutListener = LogoutRegistered(@, tabs[t].auth # Null)]
  /\ UNCHANGED <<single, documentCookie, syncSlot, landing, redirect, signals>>

\* the effects of the render that setAuth caused: [auth] and [isAuthenticated]
\* changed, the cleanups remove the listeners and the effects register new ones
ListenerEffects(t) ==
  /\ tabs[t].phase = "mounted"
  /\ tabs[t].loginListener.held # tabs[t].auth
  /\ tabs' = [tabs EXCEPT
                ![t].loginListener = Registered(Removed(@), tabs[t].auth),
                ![t].logoutListener =
                  LogoutRegistered(LogoutRemoved(@), tabs[t].auth # Null)]
  /\ UNCHANGED <<single, documentCookie, syncSlot, landing, redirect, signals>>

\* the window of tab t dispatches an event to the listeners registered on it
Run(t, event, rest) ==
  LET tab == tabs[t]
      ranLogin == LoginRun(tab, event, documentCookie, userPoolClientId, syncSlot)
      ranLogout == LogoutRun(tab, event, documentCookie, userPoolClientId,
                             ranLogin.item)
      reloads == ranLogin.reloads \/ ranLogout.reloads
      self == IF reloads
                THEN [ClosedTab EXCEPT !.phase = "reloading", !.page = tab.page,
                                       !.location = tab.location]
              ELSE IF ranLogout.signsOut
                THEN [tab EXCEPT !.events = rest,
                                 !.oauth.redirectAfterSignOut = Href(tab.location),
                                 !.call = AuthCall("signOut", Href(tab.location))]
              ELSE [tab EXCEPT !.events = rest]
      seen == Dispatched(signals, t, event, ranLogin, ranLogout)
  IN /\ syncSlot' = ranLogout.item
     /\ tabs' = Notify([tabs EXCEPT ![t] = self], t,
                       syncSlot # NoItem /\ ranLogout.item = NoItem, NoItem,
                       Len(signals))
     /\ signals' = IF reloads THEN Unloaded(seen, t) ELSE seen
     /\ UNCHANGED <<single, documentCookie, landing, redirect>>

DispatchStorage(t) ==
  /\ HasDocument(tabs[t])
  /\ tabs[t].events # <<>>
  /\ Run(t, Head(tabs[t].events), Tail(tabs[t].events))

Focus(t) ==
  /\ tabs[t].phase = "mounted"
  /\ Run(t, FocusEvt, tabs[t].events)

\* another page of the origin writes another key of localStorage
OtherKeyStorage(t) ==
  /\ tabs[t].phase = "mounted"
  /\ Run(t, StorageEvt("other", "x", 0), tabs[t].events)

\* the page of tab t navigates on the client to a page without the hook: the
\* component unmounts, the cleanups of its effects run, the document stays
HookUnmount(t) ==
  /\ tabs[t].phase = "mounted"
  /\ tabs' = [tabs EXCEPT ![t].phase = "rendered", ![t].page = "plain",
                          ![t].auth = Null,
                          ![t].loginListener = Removed(@),
                          ![t].logoutListener = LogoutRemoved(@)]
  /\ signals' = Unloaded(signals, t)
  /\ UNCHANGED <<single, documentCookie, syncSlot, landing, redirect>>

\* the tab is closed or leaves the page
Close(t) ==
  /\ tabs[t].phase # "closed"
  /\ tabs' = [tabs EXCEPT ![t] = ClosedTab]
  /\ signals' = Unloaded(signals, t)
  /\ UNCHANGED <<single, documentCookie, syncSlot, landing, redirect>>

\* room for the event of a write and for that of the removeItem that follows it
CanWrite ==
  /\ Len(signals) < MaxWrites
  /\ \A u \in Tabs : Len(tabs[u].events) <= MaxEvents - 2

\* the tabs whose registered listeners act on the event of this write
Owed(writer, value) ==
  {u \in Tabs \ {writer} :
     /\ tabs[u].phase = "mounted"
     /\ tabs[u].loginListener.held = tabs[u].auth
     /\ Acts(tabs[u], StorageEvt(AUTH_SYNC_KEY, value, 0), documentCookie,
             userPoolClientId, value)}

\* localStorage.setItem(AUTH_SYNC_KEY, value) in the page of writer, whose tab
\* record becomes self: a storage event where the item changed
SetItem(writer, self, value) ==
  /\ syncSlot' = value
  /\ signals' = Append(signals, Signal(writer, value, syncSlot, Owed(writer, value)))
  /\ tabs' = Notify([u \in Tabs |-> IF u = writer THEN self ELSE tabs[u]], writer,
                    syncSlot # value, value, Len(signals) + 1)

\* the landing page opens with #id_token= in the hash and starts polling
LandingOpen ==
  /\ landing # "polling"
  /\ landing' = "polling"
  /\ UNCHANGED <<single, documentCookie, tabs, syncSlot, redirect, signals>>

\* refreshOnAuthCookies: once the id token cookie is there, write "login"
LandingPoll ==
  /\ landing = "polling"
  /\ CanWrite
  /\ LET info == getCognitoCookieInfo(documentCookie, userPoolClientId) IN
       /\ info.kind = "return"
       /\ ~Falsy(info.val.idToken)
  /\ landing' = "done"
  /\ SetItem("landing", ClosedTab, "login")
  /\ UNCHANGED <<single, documentCookie, redirect>>

\* the page of tab t calls login(arg) / logout(arg); one call of a tab is in
\* flight at a time
Login(t, arg) ==
  /\ tabs[t].phase \in {"rendered", "mounted"}
  /\ tabs[t].call.state # "pending"
  /\ LET did == login(tabs[t].location, tabs[t].oauth, arg) IN
       tabs' = [tabs EXCEPT ![t].oauth = did.oauth, ![t].call = did.call]
  /\ UNCHANGED <<single, documentCookie, syncSlot, landing, redirect, signals>>

Logout(t, arg) ==
  /\ tabs[t].phase \in {"rendered", "mounted"}
  /\ tabs[t].call.state # "pending"
  /\ LET did == logout(tabs[t].location, tabs[t].oauth, arg) IN
       tabs' = [tabs EXCEPT ![t].oauth = did.oauth, ![t].call = did.call]
  /\ UNCHANGED <<single, documentCookie, syncSlot, landing, redirect, signals>>

\* the promise of the call that tab t has in flight settles
Settled(t, fn, how) ==
  /\ HasDocument(tabs[t])
  /\ tabs[t].call.fn = fn
  /\ tabs[t].call.state = "pending"
  /\ LET did == IF fn = "signOut" THEN signOutSettled(tabs[t].call, how)
                ELSE signInSettled(tabs[t].call, how)
         self == [tabs[t] EXCEPT !.call = did.call]
     IN IF did.writes
          THEN CanWrite /\ SetItem(t, self, "logout")
          ELSE /\ tabs' = [tabs EXCEPT ![t] = self]
               /\ UNCHANGED <<syncSlot, signals>>
  /\ UNCHANGED <<single, documentCookie, landing, redirect>>

SignOutResolves(t) == Settled(t, "signOut", "resolved")
SignOutRejects(t) == Settled(t, "signOut", "rejected")
SignInResolves(t) == Settled(t, "federatedSignIn", "resolved")
SignInRejects(t) == Settled(t, "federatedSignIn", "rejected")

(* One tab with the hook, the landing page in a second tab, and a third tab *)
(* whose page calls logout().                                               *)
\* localStorage outlives the tabs: the item a write left with no tab listening is
\* still there when the browser is opened again
InitTabs == InitBrowser(ClientIds, TabCookies, {NoItem, "login"})

NextTabs ==
  \/ CookieChange(TabCookies)
  \/ LandingOpen
  \/ LandingPoll
  \/ PageLoad("tabA", "hook", Locations, ServerSeeds)
  \/ MountEffects("tabA")
  \/ ListenerEffects("tabA")
  \/ DispatchStorage("tabA")
  \/ Focus("tabA")
  \/ OtherKeyStorage("tabA")
  \/ Close("tabA")
  \/ PageLoad("tabC", "plain", {AppLocation}, {Null})
  \/ Logout("tabC", NoArg)
  \/ SignOutResolves("tabC")

SpecTabs == InitTabs /\ [][NextTabs]_vars

(* Two statically rendered tabs with the hook, signed out until the landing *)
(* page signs in, and a tab whose page calls logout().                      *)
RaceTabs == {"tabA", "tabB"}
RaceLocations == [tabA |-> {AppLocation, TokenLocation}, tabB |-> {AppLocation}]

InitRace == InitBrowser({"c1"}, {SignedOutCookie}, {NoItem})

NextRace ==
  \/ CookieChange({SessionCookie})
  \/ LandingOpen
  \/ LandingPoll
  \/ \E t \in RaceTabs :
       \/ PageLoad(t, "hook", RaceLocations[t], {Null})
       \/ MountEffects(t)
       \/ ListenerEffects(t)
       \/ DispatchStorage(t)
  \/ PageLoad("tabC", "plain", {AppLocation}, {Null})
  \/ Logout("tabC", NoArg)
  \/ SignOutResolves("tabC")

SpecRace == InitRace /\ [][NextRace]_vars

(* One tab with the hook whose page calls login() and logout().             *)
\* the argument of login / logout: none, the empty string, a URL
RedirectArgs == {NoArg, Arg(<<>>), Arg(<<"/after">>)}

InitActions == InitBrowser({"c1"}, {SignedOutCookie, SessionCookie}, {NoItem})

NextActions ==
  \/ PageLoad("tabA", "hook", {AppLocation}, ServerSeeds)
  \/ MountEffects("tabA")
  \/ ListenerEffects("tabA")
  \/ \E arg \in RedirectArgs : Login("tabA", arg)
  \/ \E arg \in RedirectArgs : Logout("tabA", arg)
  \/ SignInResolves("tabA")
  \/ SignInRejects("tabA")
  \/ SignOutResolves("tabA")
  \/ SignOutRejects("tabA")

SpecActions == InitActions /\ [][NextActions]_vars

(* The landing page alone: its component mounts with or without id_token=  *)
(* in the hash, its effect and its timer run, its parent renders it again,  *)
(* it unmounts; the auth library writes the cookies meanwhile.              *)
MaxMounts == 2     \* mounts of the landing page
MaxRenders == 1    \* renders of one mount that pass a new callback
MaxStale == 1      \* ticks of a timer whose closure holds a triggeredReload
                   \* that is no longer the state's

\* the library has written the LastAuthUser cookie and not yet the tokens
HalfWrittenCookie ==
  CookieString(Pairs("c1", <<"a">>, <<"a">>, Absent, Absent))
LandingCookies == TabCookies \cup {HalfWrittenCookie}

\* getCognitoCookieInfo(document.cookie, userPoolWebClientId), tabulated over
\* what document.cookie and the configuration can hold
CookieInfoRead ==
  [cookie \in LandingCookies |->
     [cid \in ClientIds |-> getCognitoCookieInfo(cookie, cid)]]

\* a poll that signals as soon as a user is named by the cookies
refreshOnAuthCookies_SignalsLastUser(component, closure, cookie, cid) ==
  IF closure.triggeredReload
    THEN Did("return", FALSE, NullToken, <<>>, closure)
  ELSE LET info == CookieInfoRead[cookie][cid] IN
    IF info.kind = "throw"
      THEN Did("throw", TRUE, NullToken, <<>>, closure)
    ELSE IF info.val.lastUser = Null
      THEN Did("return", TRUE, NullToken, <<>>, closure)
    ELSE Did("return", TRUE, info.val.idToken,
             <<Call("setItem", info.val.idToken, closure.onToken),
               Call("onToken", info.val.idToken, closure.onToken)>>, closure)

\* refreshOnAuthCookies, a closure over the triggeredReload and the onToken of
\* the render whose effect defined it
refreshOnAuthCookies(component, closure, cookie, cid) ==
  IF closure.triggeredReload
    THEN Did("return", FALSE, NullToken, <<>>, closure)
  ELSE LET info == CookieInfoRead[cookie][cid] IN
    IF info.kind = "throw"
      THEN Did("throw", TRUE, NullToken, <<>>, closure)
    ELSE IF Falsy(info.val.idToken)
      THEN Did("return", TRUE, NullToken, <<>>, closure)
    ELSE Did("return", TRUE, info.val.idToken,
             IF component = "Token"
               THEN <<Navigate(closure.to, info.val.idToken, closure.onToken),
                      Call("setItem", info.val.idToken, closure.onToken)>>
               ELSE <<Call("setItem", info.val.idToken, closure.onToken),
                      Call("onToken", info.val.idToken, closure.onToken)>>,
             closure)

\* the call the effect makes when the hash has no id_token=
WithoutToken(component, callback, target) ==
  IF component = "Token" THEN Navigate(target, NullToken, callback)
  ELSE Call("onToken", NullToken, callback)

\* an effect that polls whatever the hash is
useAuthRedirectEffect_PollsAnyway(component, hash, search, state, callback, cookie, cid) ==
  IF state THEN Did("return", FALSE, NullToken, <<>>, NoInterval)
  ELSE LET first == refreshOnAuthCookies(component,
                        Interval(state, callback, ClosedOver(component, search)),
                        cookie, cid)
           said == IF hash THEN <<>> ELSE <<WithoutToken(component, callback,
                      ClosedOver(component, search))>>
       IN IF first.kind = "throw"
            THEN Did("throw", TRUE, NullToken, said, NoInterval)
            ELSE Did("return", first.read, first.idToken, said \o first.calls,
                     Interval(state, callback, ClosedOver(component, search)))

\* an effect that looks at the cookie once and starts no timer
useAuthRedirectEffect_ChecksOnce(component, hash, search, state, callback, cookie, cid) ==
  IF state THEN Did("return", FALSE, NullToken, <<>>, NoInterval)
  ELSE IF ~hash
    THEN Did("return", FALSE, NullToken, <<WithoutToken(component, callback,
                      ClosedOver(component, search))>>, NoInterval)
  ELSE LET first == refreshOnAuthCookies(component,
                        Interval(state, callback, ClosedOver(component, search)),
                        cookie, cid)
       IN IF first.kind = "throw"
            THEN Did("throw", TRUE, NullToken, <<>>, NoInterval)
            ELSE Did("return", first.read, first.idToken, first.calls, NoInterval)

\* the effect of a render with triggeredReload = state and onToken = callback
useAuthRedirectEffect(component, hash, search, state, callback, cookie, cid) ==
  IF state THEN Did("return", FALSE, NullToken, <<>>, NoInterval)
  ELSE IF ~hash
    THEN Did("return", FALSE, NullToken, <<WithoutToken(component, callback,
                      ClosedOver(component, search))>>, NoInterval)
  ELSE LET first == refreshOnAuthCookies(component,
                        Interval(state, callback, ClosedOver(component, search)),
                        cookie, cid)
       IN IF first.kind = "throw"
            THEN Did("throw", TRUE, NullToken, <<>>, NoInterval)
            ELSE Did("return", first.read, first.idToken, first.calls,
                     Interval(state, callback, ClosedOver(component, search)))

\* the effect is to run: after the first render, and after a render whose
\* [triggeredReload, setTriggeredReload, onToken] differs from the last run's
LandingEffectDue ==
  /\ redirect.phase = "mounted"
  /\ redirect.deps # <<redirect.triggeredReload, redirect.onToken>>

\* the calls of a run take place: setTriggeredReload(true) where it found the id
\* token (a no-op once unmounted), setItem, and the calls kept in the log; an
\* exception in the effect unmounts the tree
Happens(self, ran) ==
  LET wrote == \E i \in DOMAIN ran.calls : ran.calls[i].fn = "setItem" IN
  /\ redirect' =
       [self EXCEPT
          !.read = @ \/ ran.read,
          !.waited = @ \/ (ran.read /\ Falsy(ran.idToken)),
          !.log = @ \o ran.calls,
          !.triggeredReload = IF wrote /\ self.phase = "mounted" THEN TRUE ELSE @]
  /\ IF wrote THEN SetItem("landing", ClosedTab, "login")
     ELSE UNCHANGED <<tabs, syncSlot, signals>>

MountLanding ==
  /\ redirect.phase # "mounted"
  /\ redirect.mounts < MaxMounts
  /\ \E component \in Components, hash \in BOOLEAN, search \in Searches :
       /\ component # "Token" => search = <<>>
       /\ redirect' = [NoLanding EXCEPT !.phase = "mounted", !.component = component,
                                     !.hash = hash, !.search = search, !.onToken = 1,
                                     !.mounts = redirect.mounts + 1]
  /\ UNCHANGED <<single, documentCookie, tabs, syncSlot, landing, signals>>

\* React runs the effect: the cleanup of the last run clears its timer, then
\* lines 585-613
LandingEffect ==
  /\ LandingEffectDue
  /\ \E ran \in {useAuthRedirectEffect(redirect.component, redirect.hash,
                                         redirect.search, redirect.triggeredReload, redirect.onToken,
                                         documentCookie, userPoolClientId)} :
       LET self == [redirect EXCEPT
                      !.deps = <<redirect.triggeredReload, redirect.onToken>>,
                      !.interval = ran.interval]
       IN IF ran.kind = "throw"
            THEN /\ redirect' = [self EXCEPT !.phase = "crashed", !.read = TRUE]
                 /\ UNCHANGED <<tabs, syncSlot, signals>>
            ELSE Happens(self, ran)
  /\ UNCHANGED <<single, documentCookie, landing>>

\* the timer calls the function of its closure
StaleTimer ==
  \/ redirect.phase # "mounted"
  \/ redirect.interval.triggeredReload # redirect.triggeredReload

LandingTick ==
  /\ redirect.interval.live
  /\ StaleTimer => redirect.stale < MaxStale
  /\ \E ran \in {refreshOnAuthCookies(redirect.component, redirect.interval,
                                        documentCookie, userPoolClientId)} :
       LET self == [redirect EXCEPT !.stale = IF StaleTimer THEN @ + 1 ELSE @]
       IN IF ran.kind = "throw"
            THEN /\ redirect' = [self EXCEPT !.read = TRUE]
                 /\ UNCHANGED <<tabs, syncSlot, signals>>
            ELSE Happens(self, ran)
  /\ UNCHANGED <<single, documentCookie, landing>>

\* the page renders the hook again and passes a new function as onToken
LandingRender ==
  /\ redirect.phase = "mounted"
  /\ redirect.component = "useAuthRedirect"
  /\ ~LandingEffectDue
  /\ redirect.renders < MaxRenders
  /\ redirect' = [redirect EXCEPT !.onToken = 3 - @, !.renders = @ + 1]
  /\ UNCHANGED <<single, documentCookie, tabs, syncSlot, landing, signals>>

\* an unmount that leaves the timer of the effect running
LandingUnmount_LeavesTimer ==
  /\ redirect.phase = "mounted"
  /\ redirect' = [redirect EXCEPT !.phase = "unmounted"]
  /\ UNCHANGED <<single, documentCookie, tabs, syncSlot, landing, signals>>

\* the page is left: the component unmounts and the cleanup of its effect
\* clears the timer
LandingUnmount ==
  /\ redirect.phase = "mounted"
  /\ redirect' = [redirect EXCEPT !.phase = "unmounted", !.interval = NoInterval]
  /\ UNCHANGED <<single, documentCookie, tabs, syncSlot, landing, signals>>

InitLanding == InitBrowser(ClientIds, LandingCookies, {NoItem})

NextLanding ==
  \/ CookieChange(LandingCookies)
  \/ MountLanding
  \/ LandingEffect
  \/ LandingTick
  \/ LandingRender
  \/ LandingUnmount

SpecLanding == InitLanding /\ [][NextLanding]_vars

\* React runs the effects of a render it committed, and a timer that is not
\* cleared keeps firing
SpecLandingFair ==
  SpecLanding /\ WF_vars(LandingEffect) /\ WF_vars(LandingTick)

(* One tab with the hook while the clock advances, the cookies change and   *)
(* the landing page signals.                                                *)
InitHeld == InitBrowser({"c1"}, TabCookies, {NoItem})

NextHeld ==
  \/ CookieChange(TabCookies)
  \/ Tick
  \/ LandingOpen
  \/ LandingPoll
  \/ PageLoad("tabA", "hook", {AppLocation, TokenLocation}, ServerSeeds)
  \/ MountEffects("tabA")
  \/ ListenerEffects("tabA")
  \/ DispatchStorage("tabA")
  \/ Focus("tabA")
  \/ OtherKeyStorage("tabA")
  \/ HookUnmount("tabA")
  \/ Close("tabA")

SpecHeld == InitHeld /\ [][NextHeld]_vars

(* Two tabs with the hook, the landing page and a tab that calls logout();  *)
(* the cookies change until a signal is written and stay as they are then.  *)
InitLoop == InitBrowser({"c1"}, TabCookies, {NoItem, "login"})

NextLoop ==
  \/ signals = <<>> /\ CookieChange(TabCookies)
  \/ LandingOpen
  \/ LandingPoll
  \/ \E t \in RaceTabs :
       \/ PageLoad(t, "hook", RaceLocations[t], ServerSeeds)
       \/ MountEffects(t)
       \/ ListenerEffects(t)
       \/ DispatchStorage(t)
       \/ Focus(t)
  \/ PageLoad("tabC", "plain", {AppLocation}, {Null})
  \/ Logout("tabC", NoArg)
  \/ SignOutResolves("tabC")

SpecLoop == InitLoop /\ [][NextLoop]_vars

----------------------------------------------------------------------------
(* What the claims speak of, stated on the token and the key set themselves *)

HasKey(ps, token) == \E i \in 1..Len(ps) : ps[i].kid = token.kid

\* the key the key set holds for the token's key id: its first entry of that id
KeyOf(ps, token) ==
  ps[CHOOSE i \in 1..Len(ps) :
       /\ ps[i].kid = token.kid
       /\ \A j \in 1..(i - 1) : ps[j].kid # token.kid].pem

Expired(token, clock) == token.payload.exp.has /\ clock >= token.payload.exp.at

\* a well-formed token, signed with RS256 by the key the key set holds for it
SignedByKnownKey(ps, token) ==
  /\ token.form = "str" /\ token.hdr = "object" /\ token.parts = 3
  /\ HasKey(ps, token)
  /\ token.alg = "RS256"
  /\ token.sig = [alg |-> "RS256", key |-> KeyOf(ps, token)]

Verifies(ps, token, clock) == SignedByKnownKey(ps, token) /\ ~Expired(token, clock)

Passes(validate, token) ==
  \/ validate.kind = "none"
  \/ /\ token.payload.kind = "object"
     /\ token.payload[validate.field] = validate.eq

\* the cookies the locator finds in a cookie string for the configured client id
LocatedIn(c) == getCognitoCookieInfo(c, userPoolClientId)

\* both cookies present, both tokens verifying, both claims equal to the client id
SessionConditionsOf(c, clock) ==
  /\ ~CookieFalsy(c)
  /\ LocatedIn(c).kind = "return"
  /\ ~Falsy(LocatedIn(c).val.idToken) /\ ~Falsy(LocatedIn(c).val.accessToken)
  /\ Verifies(pems, LocatedIn(c).val.idToken, clock)
  /\ Verifies(pems, LocatedIn(c).val.accessToken, clock)
  /\ LocatedIn(c).val.idToken.payload.aud = userPoolClientId
  /\ LocatedIn(c).val.accessToken.payload.client_id = userPoolClientId

\* the session of the two tokens located in a cookie string
SessionOf(c) ==
  AuthTokens(LocatedIn(c).val.accessToken.payload, LocatedIn(c).val.idToken.payload,
             LocatedIn(c).val.idToken, LocatedIn(c).val.accessToken)

\* the same for the call rcall records
Located == LocatedIn(rcall.cookie)
SessionConditions == SessionConditionsOf(rcall.cookie, now)

IsSession(v) ==
  /\ DOMAIN v = {"accessTokenData", "idTokenData", "idToken", "accessToken"}
  /\ v.accessTokenData.kind = "object" /\ v.idTokenData.kind = "object"
  /\ ~Falsy(v.idToken) /\ ~Falsy(v.accessToken)

\* C1: getAuthFromCookies returns a session only if both cookies are present, both
\* tokens verify and both claims equal the client id; whenever it returns and one
\* of these fails, or the header is absent, it returns null; what it returns is
\* null or a session with all four fields filled; it returns unless the client id
\* is missing.
C1_AllOrNothing ==
  rcall.state = "done" =>
    /\ rcall.out.kind = "return" \/ userPoolClientId = ""
    /\ rcall.out.kind = "return" =>
         /\ rcall.out.val = Null \/ IsSession(rcall.out.val)
         /\ rcall.out.val # Null => SessionConditions
         /\ ~SessionConditions => rcall.out.val = Null
    /\ CookieFalsy(rcall.cookie) => rcall.out = Return(Null)

\* an id token that verifies with the right aud beside an access token of another
\* client id: null
C1_Witness ==
  /\ rcall.state = "done"
  /\ Located.kind = "return"
  /\ Located.val.idToken = GoodIdToken
  /\ Verifies(pems, GoodIdToken, now)
  /\ Verifies(pems, Located.val.accessToken, now)
  /\ Located.val.accessToken.payload.client_id = "c2"
  /\ rcall.out = Return(Null)

\* C2: with both cookies present, both tokens verifying and both claims equal to
\* the client id, the session holds the two decoded payloads and the two raw
\* cookie values.
C2_SessionPopulated ==
  (rcall.state = "done" /\ SessionConditions) =>
    rcall.out = Return(SessionOf(rcall.cookie))

C2_Witness ==
  /\ rcall.state = "done"
  /\ SessionConditions
  /\ rcall.out.val.idToken = GoodIdToken
  /\ rcall.out.val.accessToken = GoodAccessToken
  /\ rcall.out.val.idTokenData = IdPayload("c1", Expiring)

\* C3: no exception leaves verifyToken; it returns null or the decoded claims, and
\* null for a null or empty token without reading the key set.
C3_NeverThrows ==
  vcall.state = "done" =>
    /\ ~vcall.out.threw
    /\ vcall.out.ret = Null \/ vcall.out.ret = vcall.token.payload
    /\ Falsy(vcall.token) => vcall.out.ret = Null /\ vcall.out.steps = {}

\* a token whose header is no JSON, with a key set that holds keys
C3_Witness ==
  /\ vcall.state = "done"
  /\ vcall.token.hdr = "badjson"
  /\ pems # <<>>
  /\ vcall.out.ret = Null

\* C4: a token that declares another algorithm than RS256 yields null.
C4_AlgorithmAllowList ==
  (vcall.state = "done" /\ vcall.token.form = "str" /\ vcall.token.hdr = "object"
     /\ vcall.token.alg # "RS256") =>
    vcall.out.ret = Null

\* an HS256 token keyed with the pem the key set holds for its kid, whose claims
\* pass the predicate and which has not expired
C4_Witness ==
  /\ vcall.state = "done"
  /\ vcall.token.parts = 3
  /\ vcall.token.alg = "HS256"
  /\ HasKey(pems, vcall.token)
  /\ vcall.token.sig = [alg |-> "HS256", key |-> KeyOf(pems, vcall.token)]
  /\ vcall.validate.kind # "none" /\ Passes(vcall.validate, vcall.token)
  /\ ~Expired(vcall.token, now)
  /\ vcall.out.ret = Null

\* C5: a token whose kid no entry of the key set has yields null, without an
\* exception and without a signature verification; the lookup returns undefined.
C5_UnknownKey ==
  (vcall.state = "done" /\ vcall.token.form = "str" /\ vcall.token.hdr = "object"
     /\ ~HasKey(pems, vcall.token)) =>
    /\ vcall.out.ret = Null
    /\ ~vcall.out.threw
    /\ "verify" \notin vcall.out.steps
    /\ vcall.out.logs = 0
    /\ findMatchingPem(pems, vcall.token) = Return(Undefined)

\* a well-formed RS256 token of kid kx and a key set with entries
C5_Witness ==
  /\ vcall.state = "done"
  /\ vcall.token.kid = "kx" /\ vcall.token.parts = 3 /\ vcall.token.alg = "RS256"
  /\ Len(pems) = MaxPems
  /\ vcall.out.ret = Null

\* C6: a token signed with RS256 by a known key, passing the predicate, whose
\* expiry has passed yields null and no exception; getAuthFromCookies returns
\* null when either located token has expired.
C6_Expired ==
  /\ (vcall.state = "done" /\ SignedByKnownKey(pems, vcall.token)
        /\ Passes(vcall.validate, vcall.token) /\ Expired(vcall.token, now)) =>
       (vcall.out.ret = Null /\ ~vcall.out.threw)
  /\ (rcall.state = "done" /\ Located.kind = "return"
        /\ (Expired(Located.val.idToken, now) \/ Expired(Located.val.accessToken, now))) =>
       rcall.out = Return(Null)

C6_Witness ==
  /\ vcall.state = "done"
  /\ SignedByKnownKey(pems, vcall.token)
  /\ vcall.validate.kind # "none" /\ Passes(vcall.validate, vcall.token)
  /\ Expired(vcall.token, now)
  /\ vcall.out.ret = Null

\* C7: the predicate is applied only to a token whose signature and expiry were
\* verified; a verified token of claims the predicate rejects yields null; one the
\* predicate accepts, or one verified without a predicate, yields its claims.
C7_PredicateStep ==
  (vcall.state = "done" /\ vcall.token.form = "str") =>
    /\ "validate" \in vcall.out.steps => Verifies(pems, vcall.token, now)
    /\ (Verifies(pems, vcall.token, now) /\ ~Passes(vcall.validate, vcall.token)) =>
         vcall.out.ret = Null
    /\ (Verifies(pems, vcall.token, now) /\ vcall.token.payload.kind = "object"
          /\ Passes(vcall.validate, vcall.token)) =>
         vcall.out.ret = vcall.token.payload

\* a verified token of another client's aud: the predicate ran and the result is null
C7_Witness ==
  /\ vcall.state = "done"
  /\ Verifies(pems, vcall.token, now)
  /\ vcall.validate = ClaimIs("aud", "c1")
  /\ vcall.token.payload.aud = "c2"
  /\ "validate" \in vcall.out.steps
  /\ vcall.out.ret = Null

\* neither located token's expiry lies between the two clock readings
SameExpiry(c, t1, t2) ==
  LocatedIn(c).kind = "return" =>
    /\ Expired(LocatedIn(c).val.idToken, t1) = Expired(LocatedIn(c).val.idToken, t2)
    /\ Expired(LocatedIn(c).val.accessToken, t1) = Expired(LocatedIn(c).val.accessToken, t2)

\* C8 as stated: the session getServerSideAuth returned for the Cookie header c is
\* the session the hook holds after its mount effect ran with document.cookie = c.
C8_ServerClientEquivalence ==
  (server # Idle /\ phase = "resolved" /\ server.cookie = mounted.cookie) =>
    server.out = Return(auth)

\* C8, amended: ... provided neither token's expiry lies between the server's
\* evaluation and the mount effect's.
C8_EquivalenceSameExpiry ==
  (server # Idle /\ phase = "resolved" /\ server.cookie = mounted.cookie
     /\ SameExpiry(server.cookie, server.at, mounted.at)) =>
    server.out = Return(auth)

\* the server resolved a session at one clock reading, the mount effect the same
\* session from the same cookie at a later one
C8_Witness ==
  /\ server # Idle /\ phase = "resolved"
  /\ server.cookie = mounted.cookie
  /\ server.at < mounted.at
  /\ auth # Null
  /\ server.out = Return(auth)

\* C9: until its mount effect has run, useAuth holds the initialAuth it was given.
C9_SeededFirstRender == phase = "seeded" => auth = initialAuth

\* useAuth(null) rendered while the live cookie holds a valid session
C9_Witness ==
  /\ phase = "seeded"
  /\ initialAuth = Null
  /\ SessionConditionsOf(documentCookie, now)
  /\ auth = Null

\* C10: the mount effect runs once per mount, and once it ran the hook holds what
\* the live cookie resolved to: the cookie's session when its tokens verified, null
\* when they did not, whatever the hook was seeded with.
C10_MountTransition ==
  /\ effectRuns <= 1
  /\ phase = "resolved" =>
       /\ effectRuns = 1
       /\ SessionConditionsOf(mounted.cookie, mounted.at) =>
            auth = SessionOf(mounted.cookie)
       /\ ~SessionConditionsOf(mounted.cookie, mounted.at) => auth = Null

\* seeded with the server's session, mounted when the cookie no longer verifies
C10_Witness ==
  /\ phase = "resolved"
  /\ initialAuth # Null
  /\ ~SessionConditionsOf(mounted.cookie, mounted.at)
  /\ auth = Null

\* seeded with null, mounted when the cookie holds a valid session
C10_WitnessLogin ==
  /\ phase = "resolved"
  /\ initialAuth = Null
  /\ SessionConditionsOf(mounted.cookie, mounted.at)
  /\ auth = SessionOf(mounted.cookie)


----------------------------------------------------------------------------
(* What the claims on the listeners speak of *)

\* the id token the cookie lookup finds now (the null token when it finds none
\* or throws)
LiveIdToken ==
  LET info == getCognitoCookieInfo(documentCookie, userPoolClientId)
  IN IF info.kind = "return" THEN info.val.idToken ELSE NullToken

\* an id token is present and is not that of the session
Differs(session) ==
  ~Falsy(LiveIdToken) /\ (session = Null \/ session.idToken # LiveIdToken)

\* the next storage event of tab t is that of a write of value to the sync key
NextEventIs(t, value) ==
  /\ tabs[t].events # <<>>
  /\ Head(tabs[t].events).key = AUTH_SYNC_KEY
  /\ Head(tabs[t].events).newValue = value

OffTokenRoute(t) == ~OnTokenRoute(tabs[t].location.pathname)

\* C11: a mounted tab off the token route that dispatches a "login" signal
\* reloads whenever the cookie now holds an id token that is not the id token of
\* the session the hook holds (null, or another account's).
C11_AutoLogin ==
  [][\A t \in Tabs :
       (/\ DispatchStorage(t)
        /\ tabs[t].phase = "mounted"
        /\ NextEventIs(t, "login")
        /\ OffTokenRoute(t)
        /\ Differs(tabs[t].auth))
       => tabs'[t].phase = "reloading"]_vars

\* the same holds of the session the listener was registered with
AutoLoginOfListener ==
  [][\A t \in Tabs :
       (/\ DispatchStorage(t)
        /\ tabs[t].phase = "mounted"
        /\ NextEventIs(t, "login")
        /\ OffTokenRoute(t)
        /\ Differs(tabs[t].loginListener.held))
       => tabs'[t].phase = "reloading"]_vars

\* the dispatches recorded of tab t
RanBy(t) == {r \in UNION {signals[i].ran : i \in DOMAIN signals} : r.tab = t}

\* the step leaves tab t on its page: no reload, no navigation, no sign-out
StaysPut(t) ==
  /\ tabs'[t].phase = tabs[t].phase
  /\ tabs'[t].location = tabs[t].location
  /\ tabs'[t].call = tabs[t].call

\* C12: on the token route ("/token" or a path that starts with "/token/") the
\* dispatch of a "login" signal causes no reload and no navigation, whatever the
\* held session and the cookie are.
C12_TokenRouteGuardsLogin ==
  [][\A t \in Tabs :
       (/\ DispatchStorage(t)
        /\ NextEventIs(t, "login")
        /\ OnTokenRoute(tabs[t].location.pathname))
       => StaysPut(t)]_vars

\* a "login" signal reached the listener of a tab on the token route while the
\* cookie held an id token the listener's session did not have
C12_Witness ==
  \E r \in RanBy("tabA") :
    /\ r.newValue = "login"
    /\ r.login = "tokenRoute"
    /\ tabs["tabA"].phase = "mounted"
    /\ OnTokenRoute(tabs["tabA"].location.pathname)

\* the auto-logout listener of tab t is registered by an authenticated render,
\* the session is still held, and the cookie lookup finds no id token
LoggedOutElsewhere(t) ==
  /\ tabs[t].phase = "mounted"
  /\ tabs[t].auth # Null
  /\ tabs[t].logoutListener = LogoutListener(TRUE)
  /\ getCognitoCookieInfo(documentCookie, userPoolClientId).kind = "return"
  /\ Falsy(LiveIdToken)

\* C13: a focus event in a tab that holds an authenticated session, off the
\* token route, while the cookie has no id token, triggers the external sign-out
\* once, with the current URL as the redirect target.
C13_AutoLogoutSignsOut ==
  [][\A t \in Tabs :
       (Focus(t) /\ LoggedOutElsewhere(t) /\ OffTokenRoute(t))
       => /\ tabs'[t].call = AuthCall("signOut", Href(tabs[t].location))
          /\ tabs'[t].phase = "mounted"]_vars

\* what the code does instead: the tab reloads and no call is made
AutoLogoutReloads ==
  [][\A t \in Tabs :
       (Focus(t) /\ LoggedOutElsewhere(t) /\ OffTokenRoute(t))
       => /\ tabs'[t].phase = "reloading"
          /\ tabs'[t].call = NoCall]_vars

\* C14: on the token route no focus event and no storage event makes the
\* auto-logout listener sign out or reload, even when the held session is
\* authenticated and the cookie has no id token.
C14_TokenRouteGuardsLogout ==
  [][\A t \in Tabs :
       (/\ Focus(t) \/ DispatchStorage(t) \/ OtherKeyStorage(t)
        /\ OnTokenRoute(tabs[t].location.pathname)
        /\ Falsy(LiveIdToken))
       => StaysPut(t)]_vars

\* the listener of an authenticated tab on the token route heard a storage event
\* while the cookie had no id token, and returned at the guard
C14_Witness ==
  \E r \in RanBy("tabA") :
    /\ r.logout = "tokenRoute"
    /\ tabs["tabA"].phase = "mounted"
    /\ tabs["tabA"].auth # Null
    /\ OnTokenRoute(tabs["tabA"].location.pathname)

\* C15: cross-tab synchronisation is live: whatever the slot held before a
\* write, every other mounted tab whose session disagrees with the cookie performs
\* its terminal action for it. A tab acts on a write only when it dispatches the
\* storage event of that write, so until then the event is queued for it.
C15_SignalReachesOwedTabs ==
  \A i \in DOMAIN signals : \A t \in signals[i].owed :
    \E k \in DOMAIN tabs[t].events :
      /\ tabs[t].events[k].write = i
      /\ tabs[t].events[k].newValue = signals[i].value

\* a write that changed the item does reach the tabs it is owed to
SignalReachesWhenChanged ==
  \A i \in DOMAIN signals : \A t \in signals[i].owed :
    signals[i].prior # signals[i].value
    => \E k \in DOMAIN tabs[t].events : tabs[t].events[k].write = i

\* the head of the queue of tab t is a storage event of the sync key that the
\* registered storageListener of t hears
HearsSyncEvent(t) ==
  /\ tabs[t].events # <<>>
  /\ Head(tabs[t].events).key = AUTH_SYNC_KEY
  /\ tabs[t].loginListener.registered > 0

\* C16: after the storageListener of a tab handled an event of the sync key with
\* a value ("login" or "logout", on any route), the slot is empty; the event of
\* that removal (new value null) makes no storageListener clear the slot or
\* reload the tab.
C16_SignalConsumed ==
  [][\A t \in Tabs :
       (DispatchStorage(t) /\ HearsSyncEvent(t))
       => IF Head(tabs[t].events).newValue # NoItem
            THEN syncSlot' = NoItem
            ELSE /\ syncSlot' = syncSlot
                 /\ LoginRun(tabs[t], Head(tabs[t].events), documentCookie,
                             userPoolClientId, syncSlot).path = "unrelated"
                 /\ tabs'[t].phase = "reloading"
                    => LogoutRun(tabs[t], Head(tabs[t].events), documentCookie,
                                 userPoolClientId, syncSlot).reloads]_vars

\* a tab reloaded for a "login" and cleared the slot; the tab on the token
\* route heard the "login" too, and then the null event of the removal, with the
\* cookie holding a session it had not: the slot is empty
C16_Witness ==
  /\ syncSlot = NoItem
  /\ \E i \in DOMAIN signals : \E r1, r2, r3 \in signals[i].ran :
       /\ r1.newValue = "login" /\ r1.login = "reload"
       /\ r2.newValue = "login" /\ r2.login = "tokenRoute" /\ r2.tab # r1.tab
       /\ r3.newValue = NoItem /\ r3.login = "unrelated" /\ r3.tab = r2.tab
       /\ tabs[r3.tab].phase = "mounted"

TargetOf(arg, default) == IF arg.given /\ arg.url # <<>> THEN arg.url ELSE default

\* the step changes neither the slot nor the history of writes
NoSignal == UNCHANGED <<syncSlot, signals>>

\* the step leaves the reconciler of tab t as it was
ReconcilerKept(t) ==
  /\ tabs'[t].phase = tabs[t].phase
  /\ tabs'[t].auth = tabs[t].auth
  /\ tabs'[t].loginListener = tabs[t].loginListener
  /\ tabs'[t].logoutListener = tabs[t].logoutListener

\* C18: logout(target) sets the post-sign-out redirect target (the argument, or
\* the current URL when none is given) before it calls the external sign-out, and
\* writes "logout" only when that call has resolved: not when it calls, not when
\* the call rejects, and so never while the call stays pending.
C18_LogoutOrdering ==
  [][\A t \in Tabs :
       /\ \A arg \in RedirectArgs :
            Logout(t, arg)
            => /\ tabs'[t].call = AuthCall("signOut", TargetOf(arg, Href(tabs[t].location)))
               /\ tabs'[t].oauth.redirectAfterSignOut = tabs'[t].call.saw
               /\ NoSignal
       /\ SignOutRejects(t) => NoSignal
       /\ SignOutResolves(t)
          => /\ syncSlot' = "logout"
             /\ Len(signals') = Len(signals) + 1
             /\ signals'[Len(signals')].by = t
       /\ (Len(signals') > Len(signals) /\ signals'[Len(signals')].by = t)
          => /\ signals'[Len(signals')].value = "logout"
             /\ tabs[t].call.fn = "signOut" /\ tabs[t].call.state = "pending"
             /\ tabs'[t].call.state = "resolved"]_vars

\* logout("/after") resolved and wrote the signal
C18_Witness ==
  /\ tabs["tabA"].call.fn = "signOut"
  /\ tabs["tabA"].call.saw = <<"/after">>
  /\ tabs["tabA"].call.state = "resolved"
  /\ syncSlot = "logout"
  /\ Len(signals) = 1 /\ signals[1].by = "tabA"

\* C19: login(target) sets the post-login redirect target (the argument, or
\* path + search + hash of the current location when none is given) before it
\* calls the federated sign-in; neither the call nor its settling writes a signal
\* or changes the held session.
C19_LoginOrdering ==
  [][\A t \in Tabs :
       /\ \A arg \in RedirectArgs :
            Login(t, arg)
            => /\ tabs'[t].call =
                    AuthCall("federatedSignIn",
                             TargetOf(arg, tabs[t].location.pathname
                                             \o tabs[t].location.search
                                             \o tabs[t].location.hash))
               /\ tabs'[t].oauth.redirectAfterSignIn = tabs'[t].call.saw
               /\ NoSignal
               /\ ReconcilerKept(t)
       /\ (SignInResolves(t) \/ SignInRejects(t))
          => NoSignal /\ ReconcilerKept(t)]_vars

\* login() without an argument in a tab that holds a session: the sign-in was
\* called with the current path, search and hash as target, and resolved
C19_Witness ==
  /\ tabs["tabA"].call.fn = "federatedSignIn"
  /\ tabs["tabA"].call.saw = <<"/", "token", "s", "?q", "#h">>
  /\ tabs["tabA"].call.state = "resolved"
  /\ tabs["tabA"].phase = "mounted"
  /\ tabs["tabA"].auth # Null
  /\ signals = <<>>

\* C20: when the sign-in or sign-out call rejects, the failure is propagated to
\* the caller of login() / logout().
C20_FailurePropagated ==
  \A t \in Tabs :
    tabs[t].call.state = "rejected" => tabs[t].call.caller.kind = "throw"

\* C20, as the code has it: login() / logout() have returned undefined when the
\* call rejects; the rejection has no handler, no second call is made, no signal
\* is written, and the held session and the listeners stay as they were.
C20_FailureUnhandled ==
  [][\A t \in Tabs :
       (SignInRejects(t) \/ SignOutRejects(t))
       => /\ tabs'[t].call.state = "rejected"
          /\ tabs'[t].call.caller = Return(Undefined)
          /\ tabs'[t].call.unhandled
          /\ tabs'[t].call.attempts = 1
          /\ NoSignal
          /\ ReconcilerKept(t)]_vars

\* a sign-out rejected in a mounted tab that holds a session
C20_Witness ==
  /\ tabs["tabA"].call.fn = "signOut"
  /\ tabs["tabA"].call.state = "rejected"
  /\ tabs["tabA"].call.unhandled
  /\ tabs["tabA"].phase = "mounted"
  /\ tabs["tabA"].auth # Null
  /\ tabs["tabA"].loginListener = Listener(tabs["tabA"].auth)

----------------------------------------------------------------------------
(* What the claims on the configuration and the cookie convention speak of *)

\* C21: with the client id missing, every operation that depends on it raises an
\* error, for every cookie input (an absent or empty one too), and never yields
\* the "not logged in" value.
C21_ConfigurationError ==
  userPoolClientId = "" =>
    /\ lcall.state = "done" => lcall.out.kind = "throw"
    /\ rcall.state = "done" => rcall.out.kind = "throw"

\* what holds instead: the locator always raises the error, the resolver only
\* for a cookie string that is neither absent nor empty
ConfigurationErrorUnlessNoCookie ==
  userPoolClientId = "" =>
    /\ lcall.state = "done" => lcall.out.kind = "throw"
    /\ rcall.state = "done" =>
         IF CookieFalsy(rcall.cookie) THEN rcall.out = Return(Null)
         ELSE rcall.out.kind = "throw"

\* the pairs of the cookie string of the locator's call that carry this name
PairsNamed(name) ==
  {i \in DOMAIN lcall.cookie.pairs : lcall.cookie.pairs[i].name = name}

\* the name of a cookie of the configured client
OwnName(key, kind) == CookieName(userPoolClientId, key, kind)

\* the token the locator returned as kind is the value of the cookie of the
\* configured client and of the last user, and such a cookie is returned
FoundByConvention(info, kind) ==
  /\ ~Falsy(info[kind]) =>
       /\ info.lastUser # Null
       /\ \E i \in PairsNamed(OwnName(userIdToTokenKey(info.lastUser.text), kind)) :
            AsToken(lcall.cookie.pairs[i].value) = info[kind]
  /\ Falsy(info[kind]) =>
       \/ info.lastUser = Null
       \/ \A i \in PairsNamed(OwnName(userIdToTokenKey(info.lastUser.text), kind)) :
            ~ValueTruthy(lcall.cookie.pairs[i].value)

\* C22: with a client id, getCognitoCookieInfo returns all three values absent
\* for an absent or empty cookie string; otherwise lastUser is the value of the
\* LastAuthUser cookie of that client, idToken and accessToken the values of the
\* cookies named by that client and the encoded lastUser: never a cookie of
\* another client id or of another user id.
C22_CookieLookup ==
  (lcall.state = "done" /\ userPoolClientId # "") =>
    /\ lcall.out.kind = "return"
    /\ CookieFalsy(lcall.cookie) => lcall.out.val = unauthenticatedCookies
    /\ ~CookieFalsy(lcall.cookie) =>
         LET info == lcall.out.val
             own == PairsNamed(OwnName(<<>>, "LastAuthUser"))
         IN /\ info.lastUser # Null =>
                 \E i \in own : DecodeValue(lcall.cookie.pairs[i].value) = info.lastUser
            /\ info.lastUser = Null =>
                 \A i \in own : ~ValueTruthy(lcall.cookie.pairs[i].value)
            /\ FoundByConvention(info, "idToken")
            /\ FoundByConvention(info, "accessToken")

\* the session of the user "(" of client c1 was found under the key %28
C22_Witness ==
  /\ lcall.state = "done"
  /\ userPoolClientId = "c1"
  /\ lcall.out.kind = "return"
  /\ lcall.out.val.lastUser = TextValue(<<"(">>)
  /\ lcall.out.val.idToken = GoodIdToken
  /\ lcall.out.val.accessToken = GoodAccessToken

\* the cookies of another client are there, and nothing of them is returned
CookiesOfAnotherClientIgnored ==
  /\ lcall.state = "done"
  /\ userPoolClientId = "c1"
  /\ lcall.cookie = CookieString(Pairs("c2", <<"a">>, <<"a">>, GoodIdToken, GoodAccessToken))
  /\ lcall.out = Return(unauthenticatedCookies)

\* both tokens of the library's cookies verify under the key set and the clock
LibraryTokensVerify ==
  /\ VerifyIdToken(pems, userPoolClientId, GoodIdToken, now).ret # Null
  /\ VerifyAccessToken(pems, userPoolClientId, GoodAccessToken, now).ret # Null

\* C23: for a user id with special characters (+, (, ), @) the key the locator
\* computes is the key under which the library stored the tokens: the cookies
\* are found and, the tokens being valid, the session is resolved.
C23_UserIdRoundTrip ==
  \A userId \in UserIds :
    (/\ rcall.state = "done"
     /\ rcall.cookie = LibraryCookie("c1", userId)
     /\ userPoolClientId = "c1"
     /\ LibraryTokensVerify)
    => /\ userIdToTokenKey(userId) = jsCookieName(userId)
       /\ rcall.out = Return(AuthTokens(AccessPayload("c1", Expiring),
                                        IdPayload("c1", Expiring),
                                        GoodIdToken, GoodAccessToken))

\* the session of user(test)@example.com was resolved
C23_Witness ==
  /\ rcall.state = "done"
  /\ rcall.cookie = LibraryCookie("c1", <<"a", "(", "a", ")", "@", "a">>)
  /\ rcall.out.kind = "return"
  /\ rcall.out.val # Null
  /\ rcall.out.val.idToken = GoodIdToken

ServerResolved == server' # server /\ server'.state = "done"

\* C29: resolving a session only reads: the step in which the server resolver
\* (getServerSideAuth, and through it getAuthFromCookies, getCognitoCookieInfo
\* and verifyToken) answers leaves the cookies, the signal slot, the key set,
\* the client id and the session a hook holds as they were.
C29_ReadOnlyResolution ==
  [][ServerResolved =>
       UNCHANGED <<documentCookie, syncSlot, signals, pems, userPoolClientId,
                   initialAuth, auth, tabs>>]_vars

\* the server resolver rejected the cookies of a request, and the browser still
\* has them
C29_Witness ==
  /\ server.state = "done"
  /\ server.out = Return(Null)
  /\ server.cookie = documentCookie
  /\ documentCookie.pairs # <<>>

----------------------------------------------------------------------------
(* What the claims on the landing page speak of *)

\* the calls of this mount that completed the sign-in: fn with an id token
Completions(fn) ==
  {i \in DOMAIN redirect.log :
     redirect.log[i].fn = fn /\ ~Falsy(redirect.log[i].arg)}

\* the writes of the sync key by this mount
LandingWrites ==
  {i \in DOMAIN redirect.log : redirect.log[i].fn = "setItem"}

\* C24: useAuthRedirect mounted on a URL whose hash has no id_token= calls the
\* callback with null once its effect has run, and it starts no timer, does not
\* read the cookie and writes no signal.
C24_LandingWithoutToken ==
  (redirect.component = "useAuthRedirect" /\ ~redirect.hash) =>
    /\ ~redirect.interval.live
    /\ ~redirect.read
    /\ \A i \in DOMAIN redirect.log :
         redirect.log[i] = Call("onToken", NullToken, redirect.log[i].by)
    /\ (redirect.phase = "mounted" /\ ~LandingEffectDue) =>
         /\ redirect.log # <<>>
         /\ redirect.log[Len(redirect.log)].by = redirect.onToken

\* the callback got null although the cookie has an id token
C24_Witness ==
  /\ redirect.phase = "mounted"
  /\ redirect.component = "useAuthRedirect"
  /\ ~redirect.hash
  /\ redirect.log = <<Call("onToken", NullToken, 1)>>
  /\ ~Falsy(LiveIdToken)

\* the component is mounted with id_token= in the hash and has not yet recorded
\* an observation
Polling ==
  /\ redirect.phase = "mounted"
  /\ redirect.hash
  /\ ~redirect.triggeredReload

\* the mount observed the cookie: it wrote the signal and passed on the id token
\* (useAuthRedirect to the callback, Token to the router)
Observed ==
  /\ redirect.triggeredReload
  /\ LandingWrites # {}
  /\ Completions(IF redirect.component = "Token" THEN "replace" ELSE "onToken") # {}

\* a step of the landing page that completes: the log grows by calls with an id
\* token
Completes ==
  /\ Len(redirect'.log) > Len(redirect.log)
  /\ ~Falsy(redirect'.log[Len(redirect'.log)].arg)

\* C25: with id_token= in the hash, once the cookie has an id token and keeps
\* one while the component stays mounted, the poll observes it: it writes
\* "login" and passes on the id token of the cookie; as long as no id token was
\* observed the callback has not been called and the timer is running.
C25_LandingWithToken ==
  /\ (Polling /\ ~Falsy(LiveIdToken))
       ~> (redirect.phase # "mounted" \/ Falsy(LiveIdToken) \/ Observed)
  /\ []((Polling /\ ~LandingEffectDue) =>
          /\ redirect.interval.live
          /\ redirect.log = <<>>)
  /\ [][Completes =>
          /\ redirect'.log[Len(redirect'.log)].arg = LiveIdToken
          /\ Len(signals') = Len(signals) + 1
          /\ syncSlot' = "login"]_vars

\* the cookie had no id token when the poll first read it, and the poll has
\* observed the id token that appeared later
C25_Witness ==
  /\ redirect.phase = "mounted"
  /\ redirect.component = "useAuthRedirect"
  /\ redirect.waited
  /\ Observed
  /\ redirect.log = <<Call("setItem", LiveIdToken, 1), Call("onToken", LiveIdToken, 1)>>

\* C26: once the landing component is unmounted its timer is cleared: it reads
\* no cookie, calls back, navigates and writes the signal no more.
C26_PollCancelled ==
  [][(redirect.phase # "mounted" /\ redirect'.phase # "mounted") =>
       /\ ~redirect'.interval.live
       /\ redirect'.log = redirect.log
       /\ redirect'.read = redirect.read
       /\ signals' = signals
       /\ syncSlot' = syncSlot]_vars

\* the component was unmounted while it polled, and the cookie has an id token
\* now
C26_Witness ==
  /\ redirect.phase = "unmounted"
  /\ redirect.hash
  /\ redirect.waited
  /\ redirect.log = <<>>
  /\ ~Falsy(LiveIdToken)

\* C27: one mount of the landing page calls the callback with a token at most
\* once and writes "login" at most once.
C27_SingleCompletion ==
  /\ Cardinality(Completions("onToken")) <= 1
  /\ Cardinality(LandingWrites) <= 1

\* what holds instead: a further completion is that of a tick of the timer of
\* the render before the observation, which its cleanup has not yet cleared
CompletionsByStaleTicks ==
  /\ Cardinality(LandingWrites) <= 1 + redirect.stale
  /\ (redirect.phase = "mounted" /\ ~LandingEffectDue /\ redirect.triggeredReload)
       => ~redirect.interval.live

\* C30: the landing page writes "login" only in a step that read the cookie
\* and found an id token in it, and only when the hash has id_token=.
C30_SignalFollowsCookie ==
  [][Len(signals') > Len(signals) =>
       /\ signals'[Len(signals')].by = "landing"
       /\ signals'[Len(signals')].value = "login"
       /\ redirect.hash
       /\ redirect'.read
       /\ documentCookie' = documentCookie
       /\ ~Falsy(LiveIdToken)
       /\ redirect'.log[Len(redirect'.log)].arg = LiveIdToken]_vars

\* the Token component navigated and wrote "login" for the id token of the
\* cookie
C30_Witness ==
  /\ redirect.component = "Token"
  /\ redirect.log = <<Navigate(redirectUriAfterSignIn(redirect.search), LiveIdToken, 1),
                      Call("setItem", LiveIdToken, 1)>>
  /\ signals # <<>>
  /\ signals[Len(signals)].by = "landing"
  /\ syncSlot = "login"

----------------------------------------------------------------------------
(* What the claims on what the listeners leave alone speak of *)

\* what the storageListener of tab t does with the event at the head of its queue
HeadLoginRun(t) ==
  LoginRun(tabs[t], Head(tabs[t].events), documentCookie, userPoolClientId, syncSlot)

\* the cookie has no id token, or the one of the session
NothingNew(session) ==
  \/ Falsy(LiveIdToken)
  \/ session # Null /\ session.idToken = LiveIdToken

\* the event is not one of a value written to the sync key
Unrelated(event) == event.key # AUTH_SYNC_KEY \/ event.newValue = NoItem

\* C31: the auto-login listener never reloads the page when the cookie holds no
\* id token or the id token of the session the hook holds, and it neither clears
\* the slot nor reloads for an event of another key or with the new value null.
C31_NoSpuriousReload ==
  [][\A t \in Tabs :
       (DispatchStorage(t) /\ tabs[t].phase = "mounted")
       => /\ NothingNew(tabs[t].auth) => ~HeadLoginRun(t).reloads
          /\ Unrelated(Head(tabs[t].events))
             => /\ ~HeadLoginRun(t).reloads
                /\ HeadLoginRun(t).item = syncSlot]_vars

\* the same holds of the session the listener was registered with
NoSpuriousReloadOfListener ==
  [][\A t \in Tabs :
       (DispatchStorage(t) /\ tabs[t].phase = "mounted")
       => /\ NothingNew(tabs[t].loginListener.held) => ~HeadLoginRun(t).reloads
          /\ Unrelated(Head(tabs[t].events))
             => /\ ~HeadLoginRun(t).reloads
                /\ HeadLoginRun(t).item = syncSlot]_vars

\* an event reaches the listeners of tab t
Hears(t) == Focus(t) \/ DispatchStorage(t) \/ OtherKeyStorage(t)

\* the auto-logout listener of tab t reloads or signs out on the event it hears
LogoutActs(t) ==
  LET ran == LogoutRun(tabs[t], FocusEvt, documentCookie, userPoolClientId, syncSlot)
  IN ran.reloads \/ ran.signsOut

\* C32: in a tab whose hook holds no session the auto-logout listener triggers
\* no reload and no sign-out, whatever event it hears and whatever the cookie is.
C32_AutoLogoutInert ==
  [][\A t \in Tabs :
       (Hears(t) /\ tabs[t].phase = "mounted" /\ tabs[t].auth = Null)
       => ~LogoutActs(t)]_vars

\* the same holds of a listener that an unauthenticated render registered
AutoLogoutInertOfListener ==
  [][\A t \in Tabs :
       (Hears(t) /\ tabs[t].phase = "mounted" /\ tabs[t].logoutListener = LogoutListener(FALSE))
       => ~LogoutActs(t)]_vars

\* the step leaves the configuration and the calls of the auth client of tab t
\* as they were, or the page of t is gone with them (reload, close)
ClientUntouched(t) ==
  \/ tabs'[t].call = tabs[t].call /\ tabs'[t].oauth = tabs[t].oauth
  \/ tabs'[t].call = NoCall /\ tabs'[t].oauth = ConfiguredOAuth

C34_HeldSessionChangesAtMount ==
  [][\A t \in Tabs :
       /\ Hears(t) => (tabs'[t].phase = "reloading" \/ tabs'[t].auth = tabs[t].auth)
       /\ (tabs[t].phase = "mounted" /\ tabs'[t].phase = "mounted")
          => tabs'[t].auth = tabs[t].auth]_vars

\* the hook still holds the session whose tokens have expired, after it heard a
\* "login" signal
C34_Witness ==
  /\ tabs["tabA"].phase = "mounted"
  /\ tabs["tabA"].auth # Null
  /\ tabs["tabA"].auth.idToken = GoodIdToken
  /\ Expired(GoodIdToken, now)
  /\ getAuthFromCookies(pems, userPoolClientId, documentCookie, now) = Return(Null)
  /\ \E r \in RanBy("tabA") : r.newValue = "login" /\ r.login = "same"

\* the step reloads the page of tab t
Reloads(t) == HasDocument(tabs[t]) /\ tabs'[t].phase = "reloading"

\* tab t dispatches the event of a setItem other than write i
HearsAnotherWrite(t, i) ==
  /\ DispatchStorage(t)
  /\ Head(tabs[t].events).write # i
  /\ Head(tabs[t].events).newValue # NoItem

\* C35: while the cookie stays as it was when the signal was written, a tab
\* that has reloaded on the event of a write does not reload again: not on the
\* event of the removal of the item, not on a focus event, only on the event of
\* another write.
C35_NoReloadLoop ==
  [][\A t \in Tabs : \A i \in DOMAIN signals :
       (Reloads(t) /\ t \in Actors(signals[i])) => HearsAnotherWrite(t, i)]_vars

\* tab A reloaded on the signal and loaded again: it holds what the cookie
\* resolves to, its listeners are those of that session, the item is cleared
\* and tab B has dispatched the event as well
C35_Witness ==
  /\ tabs["tabA"].phase = "mounted"
  /\ tabs["tabA"].loginListener = Listener(tabs["tabA"].auth)
  /\ tabs["tabA"].events = <<>>
  /\ syncSlot = NoItem
  /\ \E r \in RanBy("tabA") : r.newValue # NoItem /\ "reload" \in {r.login, r.logout}
  /\ \E r \in RanBy("tabB") : r.newValue # NoItem

\* the listeners of the hook of tab t on the window: on "storage" by
\* useAutoLogin, on "focus" and on "storage" by useAutoLogout
ListenersOf(t) ==
  <<tabs[t].loginListener.registered, tabs[t].logoutListener.focus,
    tabs[t].logoutListener.storage>>

\* C36: while the hook is mounted exactly one storageListener and exactly one
\* auto-logout listener on each of focus and storage are registered, however
\* often the held session changed; where the hook is not mounted none is, and
\* an event dispatched there leaves the signal and the page as they are.
C36_ListenerBookkeeping ==
  /\ [](\A t \in Tabs :
          ListenersOf(t) = IF tabs[t].phase = "mounted" THEN <<1, 1, 1>>
                           ELSE <<0, 0, 0>>)
  /\ [][\A t \in Tabs :
          (DispatchStorage(t) /\ tabs[t].phase # "mounted")
          => /\ syncSlot' = syncSlot
             /\ tabs'[t].phase = tabs[t].phase]_vars

\* the hook of tab A was unmounted with the event of a "login" signal still
\* queued; the event was dispatched, no listener ran and the item is still there
C36_Witness ==
  /\ tabs["tabA"].phase = "rendered"
  /\ tabs["tabA"].page = "plain"
  /\ syncSlot = "login"
  /\ \E r \in RanBy("tabA") :
       r.newValue = "login" /\ r.login = "unregistered" /\ r.logout = "unregistered"

\* the token fails for its expiry alone
ExpiredOnly(ps, token, clock) == SignedByKnownKey(ps, token) /\ Expired(token, clock)

\* the token fails by an exception other than that of the expiry: its header
\* does not parse, or the key set has its key and jwt.verify rejects its form,
\* its algorithm or its signature
FailsOtherwise(ps, token) ==
  /\ token.form = "str"
  /\ \/ token.hdr # "object"
     \/ HasKey(ps, token) /\ ~SignedByKnownKey(ps, token)

NoLastAuthUser(cookie) ==
  \A i \in DOMAIN cookie.pairs :
    cookie.pairs[i].name = OwnName(<<>>, "LastAuthUser")
    => ~ValueTruthy(DecodeValue(cookie.pairs[i].value))

\* the cookie string has a cookie of the configured client for this kind of
\* token, with a value
HasTokenCookie(cookie, kind) ==
  \E i \in DOMAIN cookie.pairs :
    /\ cookie.pairs[i].name.cid = userPoolClientId
    /\ cookie.pairs[i].name.kind = kind
    /\ ValueTruthy(DecodeValue(cookie.pairs[i].value))

\* C38: with a client id and no (or an empty) LastAuthUser cookie of that
\* client, getCognitoCookieInfo returns lastUser, idToken and accessToken
\* absent whatever token cookies the string holds, and getAuthFromCookies
\* returns null.
C38_LastAuthUserGates ==
  /\ (lcall.state = "done" /\ userPoolClientId # "" /\ NoLastAuthUser(lcall.cookie))
     => lcall.out = Return(unauthenticatedCookies)
  /\ (rcall.state = "done" /\ userPoolClientId # "" /\ NoLastAuthUser(rcall.cookie))
     => rcall.out = Return(Null)

\* a cookie string with an empty LastAuthUser cookie and both token cookies of
\* the client: the locator returned none of them
C38_Witness ==
  /\ lcall.state = "done"
  /\ \E i \in DOMAIN lcall.cookie.pairs :
       /\ lcall.cookie.pairs[i].name = OwnName(<<>>, "LastAuthUser")
       /\ lcall.cookie.pairs[i].value = TextValue(<<>>)
  /\ HasTokenCookie(lcall.cookie, "idToken")
  /\ HasTokenCookie(lcall.cookie, "accessToken")
  /\ lcall.out = Return(unauthenticatedCookies)

\* the first value of the `to` parameter, "/" when there is none or it is empty
FirstTo(search) ==
  IF search = <<>> \/ search[1] \in {"", QNull} THEN "/" ELSE search[1]

\* the calls the step added to those of the mount
NewCalls == SubSeq(redirect'.log, Len(redirect.log) + 1, Len(redirect'.log))

\* the two calls of a completion: router.replace(target), then the write
NavigatesThenSignals(made, target, idToken) ==
  /\ Len(made) = 2
  /\ made[1].fn = "replace" /\ made[1].to = target /\ made[1].arg = idToken
  /\ made[2].fn = "setItem" /\ made[2].arg = idToken

\* C39: the Token component navigates only to the first value of `to`, or to
\* "/" when that is absent or empty.  Without id_token= in the hash the run of
\* its effect navigates there at once, reads no cookie, starts no timer and
\* writes no signal.  With id_token= it navigates only in a step that found
\* the id token in the cookie, and in that step router.replace is called
\* before "login" is written.
C39_TokenComponent ==
  [][(redirect'.component = "Token" /\ NewCalls # <<>>) =>
       /\ redirect'.search = redirect.search
       /\ IF ~redirect.hash
            THEN /\ NewCalls = <<Navigate(FirstTo(redirect.search), NullToken,
                                          redirect.onToken)>>
                 /\ LandingEffect
                 /\ ~redirect'.read
                 /\ ~redirect'.interval.live
                 /\ signals' = signals /\ syncSlot' = syncSlot
            ELSE /\ ~Falsy(LiveIdToken)
                 /\ NavigatesThenSignals(NewCalls, FirstTo(redirect.search), LiveIdToken)
                 /\ Len(signals') = Len(signals) + 1
                 /\ signals'[Len(signals')].value = "login"]_vars

\* the page was opened with ?to=/a&to=/b and id_token= in the hash; the cookie
\* first had no id token, and when it had, the component navigated to /a and
\* then wrote "login"
C39_Witness ==
  /\ redirect.component = "Token"
  /\ redirect.hash
  /\ redirect.search = <<"/a", "/b">>
  /\ redirect.waited
  /\ redirect.log = <<Navigate("/a", LiveIdToken, 1), Call("setItem", LiveIdToken, 1)>>
  /\ syncSlot = "login"

====
